---- MODULE Spec2Model ----
(***************************************************************************)
(* Verification model of the ML-bot-agents orchestration core:             *)
(*   - BacklogManager (src/src/utils/backlog_manager.py)                   *)
(*   - the pipeline-round loop of ProjectManager (src/scripts/start_agents)*)
(*   - BaseAgent.act / execute_with_retry (src/src/agents/base_agent.py)   *)
(*   - AgentTools.run_command (src/src/utils/agent_tools.py)               *)
(* Each subsystem has its own specification (SpecBacklog, SpecPipeline,    *)
(* SpecRetry, SpecAct, SpecCmd) over the shared variables below; the       *)
(* variables a specification does not use keep their initial value.        *)
(***************************************************************************)
EXTENDS Integers, Sequences, FiniteSets, TLC

VARIABLES
    tasks,      \* backlog.json "tasks": sequence of task records, insertion order
    next_id,    \* backlog.json "next_id"
    ret,        \* return value of the BacklogManager call made by the last step
    pl,         \* run_continuous_pipeline: position, round, agent index, flags
    hist,       \* observations of the pipeline run (history, not program state)
    seed,       \* the backlog the pipeline run started from (history)
    thought,    \* the text think returned, as the sequence of its segments
    act_out,    \* what BaseAgent.act did with the thought
    rt,         \* execute_with_retry: position, locals and result
    last,       \* what happened in the last completed round (history)
    failures,   \* the agent memory's "failures" list
    cmd,        \* the command string of the last run_command call, as characters
    cmd_out,    \* what run_command did with it and what it returned
    shell_log,  \* the commands handed to subprocess.run so far (history)
    files,      \* the regular files of the file system: path |-> content
    file_out,   \* the last write_file / read_file call and what it returned
    doc,        \* backlog.json "completed_at" per task, the clock, the last call
    llm,        \* DeepSeekClient and its RateLimiter, the wall clock, the call log
    votes,      \* votes.json: the proposals, next_id, and the last returned value
    esc,        \* the last _escalate_failure call: its inputs and its decision
    mem,        \* AgentMemory: the facts, the last call and what it returned
    hm,         \* AgentHealthMonitor: its lock, the agents' status, a blocked caller
    ckpt,       \* AutoRecovery in a pipeline run: the checkpoint's completed_tasks
    bio,        \* the event loop, its two coroutines and the backlog file
    plan,       \* pm_auto_plan: the calls made and what the last one returned
    pt,         \* PaperTrader: self.state and what the last call returned
    shm,        \* SharedMemory: the file, the handles' locks, the writers' positions
    main_run    \* main: position, cycle, checkpoint, started agents, shutdown log

(***************************************************************************)
(* Bounds of the model.                                                    *)
(***************************************************************************)
MaxTasks == 2

\* number of tasks in the backlog a pipeline run starts from
MaxSeedTasks == 2

\* number of segments (command markers, pieces of text) in one LLM reply
MaxSegments == 2

\* largest max_rounds passed to execute_with_retry
MaxRounds == 3

\* number of execute_with_retry calls made on one agent
MaxCalls == 2

(***************************************************************************)
(* Input sets.                                                             *)
(***************************************************************************)
AgentNames == <<"data_scientist", "quant_analyst">>

AgentSet == {AgentNames[i] : i \in 1..Len(AgentNames)}

Statuses == {"todo", "in_progress", "done", "blocked"}

\* "urgent" stands for any priority string outside the priority_order map
Priorities == {"critical", "low", "urgent"}

\* depends_on values offered to add_task for the task that will get id nid:
\* 0 models None (the code tests "if task['depends_on']", so None and 0 act
\* alike); nid-1 is the task added just before (none for the first task);
\* MaxTasks+1 is an id no task of the backlog ever gets.
DependsOnChoices(nid) == {0, nid - 1, MaxTasks + 1}

(***************************************************************************)
(* BacklogManager                                                          *)
(***************************************************************************)
\* ret after a call that is not get_next_task
NoRet == [op |-> "none", agent |-> "", task |-> <<>>]

\* priority_order.get(t["priority"], 2)
PriorityRank(p) ==
    CASE p = "critical" -> 0
      [] p = "high"     -> 1
      [] p = "medium"   -> 2
      [] p = "low"      -> 3
      [] OTHER          -> 2

\* next((t for t in data["tasks"] if t["id"] == id), None): <<>> models None
RECURSIVE FindTask(_, _)
FindTask(ts, id) ==
    IF ts = <<>> THEN <<>>
    ELSE IF Head(ts).id = id THEN <<Head(ts)>>
    ELSE FindTask(Tail(ts), id)

\* Mutant of DepNotCompleted: only a dependency that is still todo blocks.
DepNotCompleted_OnlyTodo(ts, t) ==
    /\ t.depends_on # 0
    /\ LET dep == FindTask(ts, t.depends_on)
       IN  dep # <<>> /\ dep[1].status = "todo"

\* a dependency check that ignores a dependency on the task itself or on a
\* later task
DepNotCompleted_EarlierOnly(ts, t) ==
    /\ t.depends_on # 0
    /\ t.depends_on < t.id
    /\ LET dep == FindTask(ts, t.depends_on)
       IN  dep # <<>> /\ dep[1].status # "done"

\* lines 67-70: the task has a dependency, that task exists, and is not done
DepNotCompleted(ts, t) ==
    /\ t.depends_on # 0
    /\ LET dep == FindTask(ts, t.depends_on)
       IN  dep # <<>> /\ dep[1].status # "done"

\* lines 63-71: the candidates, in scan order
Candidates(ts, agent_name) ==
    SelectSeq(ts, LAMBDA t : /\ t.assigned_to = agent_name
                              /\ t.status = "todo"
                              /\ ~DepNotCompleted(ts, t))

\* Mutant of InsertByRank: equal ranks are placed before the earlier element.
RECURSIVE InsertByRank_Unstable(_, _)
InsertByRank_Unstable(sorted, t) ==
    IF sorted = <<>> THEN <<t>>
    ELSE IF PriorityRank(Head(sorted).priority) < PriorityRank(t.priority)
         THEN <<Head(sorted)>> \o InsertByRank_Unstable(Tail(sorted), t)
         ELSE <<t>> \o sorted

\* one insertion of list.sort's stable order: t goes after every element
\* whose key is less than or equal to its own
RECURSIVE InsertByRank(_, _)
InsertByRank(sorted, t) ==
    IF sorted = <<>> THEN <<t>>
    ELSE IF PriorityRank(Head(sorted).priority) <= PriorityRank(t.priority)
         THEN <<Head(sorted)>> \o InsertByRank(Tail(sorted), t)
         ELSE <<t>> \o sorted

\* candidates.sort(key=lambda t: priority_order.get(t["priority"], 2))
RECURSIVE SortByPriority(_)
SortByPriority(s) ==
    IF s = <<>> THEN <<>>
    ELSE InsertByRank(SortByPriority(SubSeq(s, 1, Len(s) - 1)), s[Len(s)])

\* get_next_task: <<>> models None, <<t>> the returned task
GetNextTask(ts, agent_name) ==
    LET candidates == Candidates(ts, agent_name)
    IN  IF candidates = <<>> THEN <<>>
        ELSE <<SortByPriority(candidates)[1]>>

\* add_task: the new task record
NewTask(nid, assigned_to, priority, depends_on) ==
    [id |-> nid, assigned_to |-> assigned_to, status |-> "todo",
     priority |-> priority, depends_on |-> depends_on]

\* update_status, lines 82-87: the first task with this id gets the status
\* (the completed_at timestamp is not part of this model's task record)
RECURSIVE SetStatus(_, _, _)
SetStatus(ts, task_id, status) ==
    IF ts = <<>> THEN <<>>
    ELSE IF Head(ts).id = task_id
         THEN <<[Head(ts) EXCEPT !.status = status]>> \o Tail(ts)
         ELSE <<Head(ts)>> \o SetStatus(Tail(ts), task_id, status)

add_task(assigned_to, priority, depends_on) ==
    /\ Len(tasks) < MaxTasks
    /\ LET task == NewTask(next_id, assigned_to, priority, depends_on)
       IN  /\ tasks' = Append(tasks, task)
           /\ next_id' = next_id + 1
           /\ ret' = NoRet

update_status(task_id, status) ==
    /\ tasks' = SetStatus(tasks, task_id, status)
    /\ ret' = NoRet
    /\ UNCHANGED next_id

get_next_task(agent_name) ==
    /\ ret' = [op |-> "get_next_task", agent |-> agent_name,
               task |-> GetNextTask(tasks, agent_name)]
    /\ UNCHANGED <<tasks, next_id>>

BacklogAddTask ==
    \E a \in AgentSet, p \in Priorities, d \in DependsOnChoices(next_id) :
        add_task(a, p, d)

BacklogUpdateStatus ==
    \E id \in 1..(MaxTasks + 1), s \in Statuses : update_status(id, s)

BacklogGetNextTask ==
    \E a \in AgentSet : get_next_task(a)

vars ==
    <<tasks, next_id, ret, pl, hist, seed, thought, act_out, rt, last, failures,
      cmd, cmd_out, shell_log, files, file_out, doc, llm, votes, esc, main_run, mem, hm, shm, ckpt, bio, plan, pt>>

\* the variables of the tool belt's shell runner
toolVars == <<cmd, cmd_out, shell_log, files, file_out>>

\* run_command has not been called
NoCmd == [calls |-> 0, kind |-> "none", pattern |-> 0, returned |-> "none"]

\* the variables of the timestamps of the backlog document, of the LLM
\* client and of the voting system
serviceVars == <<doc, llm, votes>>

\* no timestamp is recorded and no call was made: time 0 models None
NoDoc ==
    [completed_at |-> <<>>, now |-> 0, op |-> "none", task_id |-> 0,
     status |-> "", returned |-> "none"]

\* the last wait_if_needed call: none yet
NoWait == [arrived |-> 0, admitted |-> 0, waits |-> 0]

\* a DeepSeekClient after __init__, limits as passed to it; times are in
\* tenths of a second
NewClient(rate_limit_calls, rate_limit_tokens) ==
    [max_calls |-> rate_limit_calls, max_tokens |-> rate_limit_tokens,
     calls |-> <<>>, tokens_used |-> <<>>, total_waits |-> 0,
     time |-> 0, pc |-> "idle", requests |-> 0, total_requests |-> 0,
     returned |-> "none", admitted_log |-> <<>>, last_wait |-> NoWait]

\* votes.json as _ensure_file creates it
\* tallied is the id of the proposal the last call tallied, 0 for none;
\* remaining is the number of remaining voters in a returned Pending string;
\* named is the proposal id in a returned "not found" string, 0 for none
NoVotes ==
    [proposals |-> <<>>, next_id |-> 1, returned |-> "none", remaining |-> 0,
     tallied |-> 0, named |-> 0]

\* the variables of the escalation call
supportVars == <<esc, main_run, mem, hm, shm, ckpt, bio, plan, pt>>

\* no _escalate_failure call was made
NoEscalation ==
    [called |-> FALSE, agents |-> {}, agent_name |-> "", task_id |-> 0,
     pm_decision |-> <<>>, decision |-> "", added |-> <<>>]

\* AutoRecovery._initial_state, the fields the model follows
InitialCheckpoint ==
    [cycle |-> 0, phase |-> "startup", crash_count |-> 0,
     last_crash |-> [phase |-> "None", cycle |-> 0, set |-> FALSE]]

\* the process before this one: none
NoStop == [set |-> FALSE, cycle |-> 0, step |-> 0, resumed |-> FALSE]

\* main is not running; starts counts the processes started, resumed is
\* what lines 1113-1114 found and prev is where the process before stopped
NoRun ==
    [pc |-> "idle", cycle |-> 0, step |-> 0, recovery |-> FALSE,
     state |-> InitialCheckpoint, agents |-> <<>>, raised |-> "none",
     attempted |-> <<>>, shutdown_errors |-> 0, reraised |-> FALSE,
     starts |-> 0, resumed |-> FALSE, prev |-> NoStop]

\* a key that data["facts"] does not hold
NoFact == [set |-> FALSE, value |-> ""]

\* load, line 36: {"facts": {}, "experiences": []}, before any call; written
\* is the value last passed to remember_fact for each key and remembered the
\* number of remember_failure calls (history)
NoMemory ==
    [facts |-> [k \in {"start_date", "risk_params"} |-> NoFact],
     written |-> [k \in {"start_date", "risk_params"} |-> NoFact],
     remembered |-> 0,
     op |-> "none", key |-> "", keyword |-> <<>>,
     returned |-> [kind |-> "none", value |-> "", reported |-> <<>>]]

\* self.health_monitor is None (the import of AgentHealthMonitor failed)
NoHealthMonitor ==
    [present |-> FALSE, lock |-> "free", blocked |-> FALSE, in_call |-> "",
     agents |-> [a \in {"data_scientist", "quant_analyst"} |-> "unregistered"]]

\* self.recovery is None (the import of AutoRecovery failed)
NoCheckpoint == [present |-> FALSE, completed_tasks |-> <<>>]

\* the symbols traded
Symbols == {"BTC-USD", "ETH-USD"}

\* initial_capital, in units of the smallest amount
StartingCapital == 4

\* a symbol without an entry in state["positions"]
NoPosition == [open |-> FALSE, qty |-> 0, entry_price |-> 0, cost |-> 0]

\* PaperTrader._initial_state, lines 43-54; opened counts the calls of
\* open_position that returned ok
NoTrader ==
    [capital |-> StartingCapital, positions |-> [y \in Symbols |-> NoPosition],
     closed_trades |-> <<>>, total_pnl |-> 0, total_trades |-> 0, wins |-> 0,
     losses |-> 0, returned |-> "none", opened |-> 0]

\* pm_auto_plan was not called
NoPlan == [calls |-> 0, returned |-> 0, pending_before |-> FALSE, len_before |-> 0]

\* no coroutine has run: the backlog file holds no update of this run
NoLoop ==
    [running |-> "none", file |-> {}, returned |-> {},
     pipeline |-> [pc |-> "ready", op |-> "", data |-> {}, n |-> 0],
     monitor |-> "check"]

\* the shared memory file as _ensure_file leaves it, no writer at work
NoSharedMemory ==
    [own_handles |-> TRUE, doc |-> {}, held |-> {}, returned |-> {},
     w |-> [x \in {"data_scientist", "quant_analyst", "project_manager"} |->
               [pc |-> "idle", section |-> "", data |-> {}, n |-> 0]]]

\* the variables of the group but one
allButEsc == <<main_run, mem, hm, shm, ckpt, bio, plan, pt>>
allButRun == <<esc, mem, hm, shm, ckpt, bio, plan, pt>>
allButMem == <<esc, main_run, hm, shm, ckpt, bio, plan, pt>>
allButPipeline == <<esc, main_run, mem, shm, bio, plan, pt>>
allButShm == <<esc, main_run, mem, hm, ckpt, bio, plan, pt>>
allButBio == <<esc, main_run, mem, hm, shm, ckpt, plan, pt>>
allButPlan == <<esc, main_run, mem, hm, shm, ckpt, bio, pt>>
allButPt == <<esc, main_run, mem, hm, shm, ckpt, bio, plan>>

\* the variables of the group but the named one are idle
SupportIdleBut(names) ==
    /\ "esc" \notin names => esc = NoEscalation
    /\ "main_run" \notin names => main_run = NoRun
    /\ "mem" \notin names => mem = NoMemory
    /\ "hm" \notin names => hm = NoHealthMonitor
    /\ "shm" \notin names => shm = NoSharedMemory
    /\ "ckpt" \notin names => ckpt = NoCheckpoint
    /\ "bio" \notin names => bio = NoLoop
    /\ "plan" \notin names => plan = NoPlan
    /\ "pt" \notin names => pt = NoTrader

SupportIdle == SupportIdleBut({})

ServiceIdle ==
    /\ doc = NoDoc
    /\ llm = NewClient(60, 500000)
    /\ votes = NoVotes

\* the file system before any tool call: one file outside the workspace
\* (/etc/passwd), none inside; a path is the sequence of its components
FilesAtStart == (<<<<"e", "t", "c">>, <<"p", "a", "s", "s", "w", "d">>>> :> "root")

\* write_file / read_file has not been called
NoFileOut == [op |-> "none", filename |-> <<>>, path |-> <<>>, returned |-> "none"]

ToolIdle ==
    /\ cmd = <<>>
    /\ cmd_out = NoCmd
    /\ shell_log = <<>>
    /\ files = FilesAtStart
    /\ file_out = NoFileOut

\* the variables of the agent loop
agentVars == <<thought, act_out, rt, last, failures>>

\* the variables of the backlog and the pipeline
orchestratorVars == <<tasks, next_id, ret, pl, hist, seed>>

\* last_error = None
NoError == [kind |-> "None", round |-> 0]

\* execute_with_retry is not running
RetryIdle ==
    [pc |-> "idle", max_rounds |-> 0, round_num |-> 0, last_error |-> NoError,
     ctx_error |-> NoError, run |-> "none", think_calls |-> 0, act_calls |-> 0,
     calls |-> 0, failures_before |-> <<>>,
     result |-> [status |-> "none", error |-> NoError, rounds |-> 0]]

NoRound == [round |-> 0, think_ok |-> FALSE, act_error |-> FALSE, run |-> "none",
            missing |-> FALSE, success |-> FALSE, error |-> NoError]

\* act has not been called
NoAct == [called |-> FALSE, raised |-> FALSE, applied |-> <<>>,
          report |-> [none |-> TRUE, lines |-> <<>>]]

AgentIdle ==
    /\ thought = <<>>
    /\ act_out = NoAct
    /\ rt = RetryIdle
    /\ last = NoRound
    /\ failures = <<>>

\* the pipeline is not running
PipelineIdle ==
    [pc |-> "idle", round |-> 0, idx |-> 0, executed_any |-> FALSE, cur |-> <<>>,
     monitor |-> "off"]

NoHist == [started |-> {}, outcome |-> {}, escalated |-> {}]

\* _ensure_backlog, line 27: {"tasks": [], "next_id": 1}
InitBacklog ==
    /\ tasks = <<>>
    /\ next_id = 1
    /\ ret = NoRet
    /\ pl = PipelineIdle
    /\ hist = NoHist
    /\ seed = <<>>
    /\ ToolIdle
    /\ ServiceIdle
    /\ SupportIdle
    /\ AgentIdle

NextBacklog ==
    \/ BacklogAddTask /\ UNCHANGED <<pl, hist, seed, agentVars, toolVars, serviceVars, supportVars>>
    \/ BacklogUpdateStatus /\ UNCHANGED <<pl, hist, seed, agentVars, toolVars, serviceVars, supportVars>>
    \/ BacklogGetNextTask /\ UNCHANGED <<pl, hist, seed, agentVars, toolVars, serviceVars, supportVars>>

SpecBacklog == InitBacklog /\ [][NextBacklog]_vars

(***************************************************************************)
(* Claims about BacklogManager, checked under SpecBacklog.                 *)
(***************************************************************************)
\* the positions of the tasks whose id is d
TasksWithId(d) == {i \in 1..Len(tasks) : tasks[i].id = d}

\* C1: after any sequence of add_task and update_status calls, the task
\* returned by get_next_task never depends on an existing task whose status
\* is todo, in_progress or blocked.
C1_NeverReturnsTaskWithUnfinishedDependency ==
    (ret.op = "get_next_task" /\ ret.task # <<>>) =>
        \A i \in TasksWithId(ret.task[1].depends_on) :
            ret.task[1].depends_on # 0 => tasks[i].status = "done"

\* C1 witness: get_next_task returned a task whose dependency exists and is done.
C1_Witness ==
    /\ ret.op = "get_next_task"
    /\ ret.task # <<>>
    /\ ret.task[1].depends_on # 0
    /\ \E i \in TasksWithId(ret.task[1].depends_on) : tasks[i].status = "done"

\* the rank map as the claim states it
C2_Rank(p) ==
    IF p = "critical" THEN 0 ELSE IF p = "high" THEN 1
    ELSE IF p = "low" THEN 3 ELSE 2

\* the positions of the tasks the claim calls eligible for the agent
C2_Eligible(a) ==
    {i \in 1..Len(tasks) :
        /\ tasks[i].assigned_to = a
        /\ tasks[i].status = "todo"
        /\ \/ tasks[i].depends_on = 0
           \/ \A j \in TasksWithId(tasks[i].depends_on) : tasks[j].status = "done"}

\* C2: get_next_task returns None iff the agent has no eligible task (its own,
\* todo, dependency absent or done); otherwise it returns the earliest-inserted
\* eligible task of minimal priority rank.
C2_ReturnsEarliestOfMinimalRank ==
    ret.op = "get_next_task" =>
        LET E == C2_Eligible(ret.agent)
        IN  /\ (ret.task = <<>>) <=> (E = {})
            /\ E # {} =>
                   \E i \in E :
                       /\ ret.task[1] = tasks[i]
                       /\ \A j \in E :
                              \/ C2_Rank(tasks[j].priority) > C2_Rank(tasks[i].priority)
                              \/ /\ C2_Rank(tasks[j].priority) = C2_Rank(tasks[i].priority)
                                 /\ i <= j

\* C2 witness: a critical task was returned although a low task of the same
\* agent, also eligible, was inserted before it.
C2_Witness ==
    /\ ret.op = "get_next_task"
    /\ ret.task # <<>>
    /\ ret.task[1].priority = "critical"
    /\ \E j \in C2_Eligible(ret.agent) :
           tasks[j].priority = "low" /\ tasks[j].id < ret.task[1].id

(***************************************************************************)
(* ProjectManager: run_continuous_pipeline, _execute_agent_task and        *)
(* _escalate_failure.  A step is the code between two suspension points:   *)
(* the only await that yields inside a round is execute_with_retry.        *)
(***************************************************************************)
\* backlog.update_status(task_id, status) on the backlog document ts
UpdateStatusOn(ts, task_id, status) == SetStatus(ts, task_id, status)

\* an add_task that does not advance the id counter
AddTaskOn_SameNextId(b, assigned_to, priority, depends_on) ==
    [tasks   |-> Append(b.tasks, NewTask(b.next_id, assigned_to, priority, depends_on)),
     next_id |-> b.next_id]

\* bm.add_task(...) on the backlog document b = [tasks, next_id]
AddTaskOn(b, assigned_to, priority, depends_on) ==
    [tasks   |-> Append(b.tasks, NewTask(b.next_id, assigned_to, priority, depends_on)),
     next_id |-> b.next_id + 1]

\* a pending list that leaves out the tasks in progress
Pending_OnlyTodo(ts) == SelectSeq(ts, LAMBDA t : t.status = "todo")

\* line 524: pending = tasks that are todo or in_progress
Pending(ts) == SelectSeq(ts, LAMBDA t : t.status \in {"todo", "in_progress"})

\* lines 546-554: some pending task is todo, and every todo one has a depends_on
\* Mutant of Deadlocked: any remaining todo task is taken for a deadlock.
Deadlocked_AnyTodo(ts) == \E i \in 1..Len(ts) : ts[i].status = "todo"

Deadlocked(ts) ==
    LET blocked_tasks == SelectSeq(Pending(ts), LAMBDA t : t.status = "todo")
    IN  /\ blocked_tasks # <<>>
        /\ \A i \in 1..Len(blocked_tasks) : blocked_tasks[i].depends_on # 0

\* what "await agent.execute_with_retry(...)" can come back with: a result
\* whose status is success or partial (base_agent.py:365-385), or an exception
\* that act lets through (base_agent.py:228)
ExecuteResults == {"success", "partial", "raised"}

\* line 611: task_success = result.get('status') in ('success', 'partial')
\* a test that takes a partial result for a failure
TaskSuccess_SuccessOnly(status) == status = "success"

TaskSuccess(status) == status \in {"success", "partial"}

\* the keyword _escalate_failure finds in the PM reply, lines 731-735
Decisions == {"SKIP", "REASSIGN", "SPLIT"}

RECURSIVE AddSubtasks(_, _, _)
AddSubtasks(b, agent_name, n) ==
    IF n = 0 THEN b
    ELSE AddSubtasks(AddTaskOn(b, agent_name, "high", 0), agent_name, n - 1)

\* subtasks[:2]
FirstTwo(n) == IF n > 2 THEN 2 ELSE n

\* _escalate_failure, lines 740-786, on the backlog b when self.agents holds
\* the agents `agents`: new_agent is the random.choice among the others,
\* n_sub the length of the JSON list in the PM's second reply (0 when there
\* is none)
EscalateFailureAmong(agents, b, task_id, agent_name, decision, new_agent, n_sub) ==
    LET blocked == [b EXCEPT !.tasks = UpdateStatusOn(b.tasks, task_id, "blocked")]
    IN  CASE decision = "SKIP" -> blocked
          [] decision = "REASSIGN" ->
                IF agents \ {agent_name} # {}
                THEN AddTaskOn(blocked, new_agent, "high", 0)
                ELSE blocked
          [] OTHER -> AddSubtasks(blocked, agent_name, FirstTwo(n_sub))

\* _escalate_failure when every agent was started
EscalateFailure(b, task_id, agent_name, decision, new_agent, n_sub) ==
    EscalateFailureAmong(AgentSet, b, task_id, agent_name, decision, new_agent, n_sub)

\* line 746: the agents random.choice picks from (the agent itself stands in
\* when there is no other agent; EscalateFailure then adds no task)
OtherAgents(agent_name) ==
    IF AgentSet \ {agent_name} = {} THEN {agent_name} ELSE AgentSet \ {agent_name}

(***************************************************************************)
(* AgentHealthMonitor (src/src/utils/agent_health.py).  Its lock is a      *)
(* threading.Lock: a thread that acquires it while it is held waits until  *)
(* it is released, also when the holder is that thread itself.  A record h *)
(* with h.blocked is a caller that waits in such an acquire; the rest of   *)
(* its call is not executed.                                               *)
(***************************************************************************)
\* "with self.lock:", entry
HealthAcquire(h) ==
    IF h.blocked THEN h
    ELSE IF h.lock = "free" THEN [h EXCEPT !.lock = "held"]
    ELSE [h EXCEPT !.blocked = TRUE]

\* "with self.lock:", exit
HealthRelease(h) == IF h.blocked THEN h ELSE [h EXCEPT !.lock = "free"]

\* get_status_all, lines 132-146
GetStatusAll(h) == HealthRelease(HealthAcquire(h))

\* _save_state, lines 47-54: json.dump(self.get_status_all(), ...)
SaveState(h) == GetStatusAll(h)

\* register_agent, lines 29-45
RegisterAgent(h, agent_name) ==
    LET locked == HealthAcquire(h)
    IN  HealthRelease(IF locked.blocked THEN locked
                      ELSE [locked EXCEPT !.agents[agent_name] = "idle"])

\* the monitor after start_all_agents registered every agent (lines 301-305)
HealthMonitorStarted ==
    RegisterAgent(RegisterAgent([NoHealthMonitor EXCEPT !.present = TRUE],
                                "data_scientist"), "quant_analyst")

\* task_started, lines 56-66
TaskStarted(h, agent_name) ==
    LET locked     == [HealthAcquire(h) EXCEPT !.in_call = "task_started"]
        registered == IF locked.agents[agent_name] = "unregistered"
                      THEN RegisterAgent(locked, agent_name)
                      ELSE locked
        working    == IF registered.blocked THEN registered
                      ELSE [registered EXCEPT !.agents[agent_name] = "working"]
    IN  HealthRelease(SaveState(working))

\* task_completed, lines 68-93
TaskCompleted(h, agent_name) ==
    LET locked == [HealthAcquire(h) EXCEPT !.in_call = "task_completed"]
    IN  IF locked.blocked \/ locked.agents[agent_name] = "unregistered"
        THEN HealthRelease(locked)
        ELSE HealthRelease(SaveState([locked EXCEPT !.agents[agent_name] = "idle"]))

\* AutoRecovery.task_completed, auto_recovery.py lines 66-75
RecoveryTaskCompleted(c, task_id) ==
    [c EXCEPT !.completed_tasks = Append(@, task_id)]

\* AutoRecovery.start_cycle, auto_recovery.py lines 54-59
RecoveryStartCycle(c) == [c EXCEPT !.completed_tasks = <<>>]

\* Mutant of AgentAfter: the same agent is asked again after its task.
AgentAfter_SameAgent(idx) == idx

\* line 536: the for loop moves on to the next agent of self.agents
AgentAfter(idx) == idx + 1

\* line 519
max_pipeline_rounds == 10

\* lines 521-532: top of a round
PipelineRoundStart ==
    /\ pl.pc = "round_start"
    /\ IF pl.round > max_pipeline_rounds
       THEN pl' = [pl EXCEPT !.pc = "exhausted"]
       ELSE IF Pending(tasks) = <<>>
            THEN pl' = [pl EXCEPT !.pc = "complete"]
            ELSE pl' = [pl EXCEPT !.pc = "agents", !.idx = 1, !.executed_any = FALSE]
    /\ UNCHANGED <<tasks, next_id, ret, hist, seed, hm, ckpt>>

\* lines 536-539: the agent at idx has no runnable task
PipelineAgentIdle ==
    /\ pl.pc = "agents"
    /\ pl.idx <= Len(AgentNames)
    /\ GetNextTask(tasks, AgentNames[pl.idx]) = <<>>
    /\ pl' = [pl EXCEPT !.idx = pl.idx + 1]
    /\ UNCHANGED <<tasks, next_id, ret, hist, seed, hm, ckpt>>

\* lines 537-542 and 577-608: the agent's next task is announced, marked
\* in_progress, the health monitor is told (lines 599-601), the task is
\* put into the checkpoint (lines 603-605), and execute_with_retry is
\* awaited; a task_started that does not return keeps the event loop's
\* thread in that call
PipelineStartTask ==
    /\ pl.pc = "agents"
    /\ pl.idx <= Len(AgentNames)
    /\ LET next == GetNextTask(tasks, AgentNames[pl.idx])
           told == IF hm.present THEN TaskStarted(hm, AgentNames[pl.idx]) ELSE hm
       IN  /\ next # <<>>
           /\ tasks' = UpdateStatusOn(tasks, next[1].id, "in_progress")
           /\ hm' = told
           /\ ckpt' = IF ckpt.present /\ ~told.blocked
                      THEN RecoveryTaskCompleted(ckpt, next[1].id)
                      ELSE ckpt
           /\ pl' = [pl EXCEPT !.pc = IF told.blocked THEN "blocked" ELSE "executing",
                               !.executed_any = TRUE, !.cur = next]
           /\ hist' = [hist EXCEPT !.started = @ \cup {<<next[1].id, pl.round>>}]
    /\ UNCHANGED <<next_id, ret, seed>>

\* lines 608-672: execute_with_retry came back; the task is marked done or
\* the failure is escalated, and the round moves on (lines 542-543)
PipelineFinishTask ==
    /\ pl.pc = "executing"
    /\ \E status \in ExecuteResults \ {"raised"} :
         LET task_id == pl.cur[1].id
             agent_name == AgentNames[pl.idx]
             told == IF hm.present THEN TaskCompleted(hm, agent_name) ELSE hm
         IN  /\ hm' = told
             /\ \/ /\ told.blocked
                   /\ pl' = [pl EXCEPT !.pc = "blocked"]
                   /\ UNCHANGED <<tasks, next_id, hist>>
                \/ /\ ~told.blocked
                   /\ TaskSuccess(status)
                   /\ tasks' = UpdateStatusOn(tasks, task_id, "done")
                   /\ next_id' = next_id
                   /\ hist' = [hist EXCEPT !.outcome = @ \cup {<<task_id, status>>}]
                   /\ pl' = [pl EXCEPT !.pc = "agents", !.idx = AgentAfter(pl.idx),
                                       !.cur = <<>>]
                \/ /\ ~told.blocked
                   /\ ~TaskSuccess(status)
                   /\ \E decision \in Decisions, new_agent \in OtherAgents(agent_name),
                         n_sub \in 0..2 :
                        LET b == EscalateFailure([tasks |-> tasks, next_id |-> next_id],
                                     task_id, agent_name, decision, new_agent, n_sub)
                        IN  /\ tasks' = b.tasks
                            /\ next_id' = b.next_id
                            /\ hist' = [hist EXCEPT
                                   !.outcome = @ \cup {<<task_id, status>>},
                                   !.escalated = @ \cup {task_id}]
                   /\ pl' = [pl EXCEPT !.pc = "agents", !.idx = AgentAfter(pl.idx),
                                       !.cur = <<>>]
    /\ UNCHANGED <<ret, seed, ckpt>>

\* line 608: execute_with_retry raised; nothing in the pipeline catches it,
\* the task stays in_progress and the exception leaves run_continuous_pipeline
PipelineTaskRaises ==
    /\ pl.pc = "executing"
    /\ "raised" \in ExecuteResults
    /\ pl' = [pl EXCEPT !.pc = "crashed"]
    /\ hist' = [hist EXCEPT !.outcome = @ \cup {<<pl.cur[1].id, "raised">>}]
    /\ UNCHANGED <<tasks, next_id, ret, seed, hm, ckpt>>

\* lines 545-557: every agent was asked; deadlock check, then the next round
\* (the code tests the pending list read at the top of the round, which is the
\* current backlog when no task was executed in the round)
PipelineRoundEnd ==
    /\ pl.pc = "agents"
    /\ pl.idx > Len(AgentNames)
    /\ IF ~pl.executed_any /\ Deadlocked(tasks)
       THEN pl' = [pl EXCEPT !.pc = "deadlocked"]
       ELSE pl' = [pl EXCEPT !.pc = "round_start", !.round = pl.round + 1]
    /\ UNCHANGED <<tasks, next_id, ret, hist, seed, hm, ckpt>>

\* monitor_agents_intelligent, the background task main creates before the
\* cycle loop: it runs while the pipeline awaits (execute_with_retry, the
\* sleeps between tasks and rounds), and alternates between its sleep and a
\* conversation in which it awaits agents' think; it calls no BacklogManager
\* method and no execute_with_retry
MonitorStep ==
    /\ pl.pc \in {"executing", "agents"}
    /\ pl' = [pl EXCEPT !.monitor = IF @ = "sleeping" THEN "chatting" ELSE "sleeping"]
    /\ UNCHANGED <<tasks, next_id, ret, hist, seed, hm, ckpt>>

\* the steps of run_continuous_pipeline itself
PipelineStep ==
    \/ PipelineRoundStart
    \/ PipelineAgentIdle
    \/ PipelineStartTask
    \/ PipelineFinishTask
    \/ PipelineTaskRaises
    \/ PipelineRoundEnd

\* the backlogs a pipeline run can find in backlog.json: ids 1..n in insertion
\* order; a task is todo, done, or in_progress (left by a run that crashed in
\* the middle of the task); it depends on nothing or on the task before it
SeedTask(i) ==
    {[id |-> i, assigned_to |-> a, status |-> st, priority |-> p, depends_on |-> d] :
        a \in AgentSet, st \in {"todo", "in_progress", "done"},
        p \in {"critical", "low"}, d \in {0, i - 1}}

RECURSIVE SeedBacklogs(_)
SeedBacklogs(n) ==
    IF n = 0 THEN {<<>>}
    ELSE {Append(b, t) : b \in SeedBacklogs(n - 1), t \in SeedTask(n)}

InitPipeline ==
    /\ \E n \in 0..MaxSeedTasks : tasks \in SeedBacklogs(n)
    /\ next_id = Len(tasks) + 1
    /\ ret = NoRet
    /\ pl = [pc |-> "round_start", round |-> 1, idx |-> 0,
             executed_any |-> FALSE, cur |-> <<>>, monitor |-> "sleeping"]
    /\ hist = NoHist
    /\ seed = tasks
    /\ AgentIdle
    /\ ToolIdle
    /\ ServiceIdle
    /\ SupportIdleBut({"hm"})
    /\ hm \in {NoHealthMonitor, HealthMonitorStarted}

NextPipeline ==
    \/ PipelineRoundStart /\ UNCHANGED <<agentVars, toolVars, serviceVars, allButPipeline>>
    \/ PipelineAgentIdle /\ UNCHANGED <<agentVars, toolVars, serviceVars, allButPipeline>>
    \/ PipelineStartTask /\ UNCHANGED <<agentVars, toolVars, serviceVars, allButPipeline>>
    \/ PipelineFinishTask /\ UNCHANGED <<agentVars, toolVars, serviceVars, allButPipeline>>
    \/ PipelineTaskRaises /\ UNCHANGED <<agentVars, toolVars, serviceVars, allButPipeline>>
    \/ PipelineRoundEnd /\ UNCHANGED <<agentVars, toolVars, serviceVars, allButPipeline>>
    \/ MonitorStep /\ UNCHANGED <<agentVars, toolVars, serviceVars, allButPipeline>>

SpecPipeline == InitPipeline /\ [][NextPipeline]_vars

\* the event loop keeps running the pipeline coroutine: every await of
\* run_continuous_pipeline (a sleep, or an execute_with_retry that returns or
\* raises) completes, whatever the monitor does in between
SpecPipelineFair ==
    /\ SpecPipeline
    /\ WF_vars(PipelineStep /\ UNCHANGED <<agentVars, toolVars, serviceVars, allButPipeline>>)

(***************************************************************************)
(* Claims about the pipeline, checked under SpecPipeline.                  *)
(***************************************************************************)
\* the step moves no task to in_progress unless the existing task it depends
\* on is done
C3_StartsOnlyWithDependencyDone ==
    \A i \in 1..Len(tasks) :
        (tasks[i].status # "in_progress" /\ tasks'[i].status = "in_progress") =>
            \A j \in TasksWithId(tasks[i].depends_on) :
                tasks[i].depends_on # 0 =>
                    (tasks[j].status = "done" /\ tasks'[j].status = "done")

\* the run started from task #1 (data_scientist, no dependency, todo) and task
\* #2 (data_scientist, depends_on = 1, todo), data_scientist having no other
\* todo task
C3_Scenario ==
    /\ Len(seed) >= 2
    /\ seed[1].assigned_to = "data_scientist" /\ seed[1].status = "todo"
    /\ seed[1].depends_on = 0
    /\ seed[2].assigned_to = "data_scientist" /\ seed[2].status = "todo"
    /\ seed[2].depends_on = 1
    /\ \A i \in 3..Len(seed) :
           ~(seed[i].assigned_to = "data_scientist" /\ seed[i].status = "todo")

\* in the scenario, round 1 executes #1, and #2 is executed only in a later
\* round, when #1 has been marked done
C3_ScenarioOrder ==
    C3_Scenario =>
        /\ (pl.round >= 2 \/ pl.pc = "executing") => <<1, 1>> \in hist.started
        /\ \A r \in 1..max_pipeline_rounds :
               <<2, r>> \in hist.started =>
                   /\ r > 1
                   /\ <<1, 1>> \in hist.started
                   /\ tasks[1].status = "done"

\* C3: in any pipeline run a task that depends on an existing task D is moved
\* to in_progress only in a state where D is done; with task #1
\* (data_scientist, no dependency) and task #2 (data_scientist, depends_on = 1)
\* the first round executes #1 and #2 is executed only in a later round, after
\* #1 was marked done.
C3_DependencyOrderInPipeline ==
    [][C3_StartsOnlyWithDependencyDone]_vars /\ []C3_ScenarioOrder

\* C3 witness: in the scenario, #2 was started in round 2 after #1 ran in round 1.
C3_Witness ==
    /\ C3_Scenario
    /\ <<1, 1>> \in hist.started
    /\ <<2, 2>> \in hist.started
    /\ tasks[1].status = "done"

\* C7 (as claimed): whenever execute_with_retry returned status partial for a
\* task, _escalate_failure has run for it and its decision was applied to the
\* backlog (every decision leaves the failed task blocked).
C7_PartialIsEscalated ==
    \A o \in hist.outcome :
        (o[2] = "partial" /\ pl.pc # "executing") =>
            /\ o[1] \in hist.escalated
            /\ \A i \in TasksWithId(o[1]) : tasks[i].status = "blocked"

\* the pipeline loop has ended
C15_Ended == pl.pc \in {"complete", "exhausted", "deadlocked", "crashed"}

C15_Unfinished == {i \in 1..Len(tasks) : tasks[i].status \in {"todo", "in_progress"}}

\* no round beyond the tenth is run, and completion is declared only when no
\* task is todo or in_progress
C15_Bounded ==
    /\ pl.pc \in {"agents", "executing"} => pl.round <= 10
    /\ \A s \in hist.started : s[2] <= 10
    /\ pl.pc = "complete" => C15_Unfinished = {}

\* at the start of a round (of the ten) with no task todo or in_progress the
\* loop stops, declaring completion, and it declares completion nowhere else
C15_StopsAtFirstEmptyRound ==
    /\ (pl.pc = "round_start" /\ pl.round <= 10 /\ C15_Unfinished = {}
            /\ pl'.pc # pl.pc) => pl'.pc = "complete"
    /\ (pl.pc # "complete" /\ pl'.pc = "complete") =>
            (pl.pc = "round_start" /\ C15_Unfinished = {})

\* C15: run_continuous_pipeline performs at most 10 rounds and terminates
\* (every task execution returning or ending the run: an execution that
\* waits for ever in the health monitor is outside the statement); it stops early,
\* declaring completion, at the start of the first round in which no task is
\* todo or in_progress, and never declares completion while such a task exists.
C15_AtMostTenRoundsAndTerminates ==
    /\ []C15_Bounded
    /\ [][C15_StopsAtFirstEmptyRound]_vars
    /\ <>(C15_Ended \/ pl.pc = "blocked")

\* C15 witness: the run used all ten rounds without completing.
C15_Witness ==
    /\ pl.pc = "exhausted"
    /\ C15_Unfinished # {}

\* C26: every call of task_started and task_completed made by
\* _execute_agent_task returns, leaving the agent's status "working"
\* respectively "idle": no call path acquires the monitor's lock again while
\* holding it, so the pipeline never waits for ever in the health monitor.
C26_HealthCallsReturn ==
    /\ ~hm.blocked
    /\ pl.pc # "blocked"
    /\ (hm.present /\ pl.pc = "executing") => hm.agents[AgentNames[pl.idx]] = "working"

\* the position of an agent in the agents dictionary, 0 for an unknown name
C16_AgentIndex(a) ==
    IF a \in AgentSet THEN CHOOSE k \in 1..Len(AgentNames) : AgentNames[k] = a ELSE 0

\* the ids of the tasks started in round r
C16_StartedIn(r) == {s[1] : s \in {x \in hist.started : x[2] = r}}

C16_InProgress == {i \in 1..Len(tasks) : tasks[i].status = "in_progress"}

\* in every round each agent is given at most one task, and a run that found
\* no task in progress has at most one task in progress
C16_OneAtATime ==
    /\ \A r \in 1..10 : \A i \in C16_StartedIn(r), j \in C16_StartedIn(r) :
          (\E m \in TasksWithId(i), n \in TasksWithId(j) :
              tasks[m].assigned_to = tasks[n].assigned_to) => i = j
    /\ (\A k \in 1..Len(seed) : seed[k].status # "in_progress") =>
          Cardinality(C16_InProgress) <= 1
    /\ pl.pc = "executing" => C16_InProgress # {}

\* a step that starts a task starts it for an agent that comes, in dictionary
\* order, after every agent given a task earlier in the round
C16_StartsInOrder ==
    \A i \in C16_StartedIn(pl.round)' \ C16_StartedIn(pl.round) :
        \A j \in C16_StartedIn(pl.round) :
            \A m \in TasksWithId(i), n \in TasksWithId(j) :
                C16_AgentIndex(tasks[n].assigned_to) < C16_AgentIndex(tasks[m].assigned_to)

\* C16: within one pipeline round at most one task per agent is executed,
\* agents are handled one after another in dictionary order, and (starting
\* from a backlog without in_progress tasks) at most one task is in_progress
\* at every moment, also while the background monitor runs.
C16_SequentialExecution ==
    []C16_OneAtATime /\ [][C16_StartsInOrder]_vars

\* C16 witness: in one round the first agent's task was executed and the
\* second agent's task is executing while the monitor is in a conversation.
C16_Witness ==
    /\ \A k \in 1..Len(seed) : seed[k].status # "in_progress"
    /\ pl.pc = "executing"
    /\ pl.idx = 2
    /\ pl.monitor = "chatting"
    /\ Cardinality(C16_StartedIn(pl.round)) = 2

(***************************************************************************)
(* main's cycles (start_agents.py:1138-1300): run_continuous_pipeline,     *)
(* then code review, voting and pm_auto_plan, then the next cycle on the   *)
(* same backlog file.  Only the started agents are asked for tasks; a task *)
(* may name an agent that was not started (risk_manager is optional,       *)
(* lines 294-299).  _run_code_reviews returns at once when no engineer is  *)
(* started (lines 831-833), so in this configuration the tasks a cycle     *)
(* adds come from pm_auto_plan.                                            *)
(***************************************************************************)
\* number of tasks in the backlog over all cycles
MaxCycleTasks == 3

CycleAgents == AgentSet \cup {"risk_manager", "engineer"}

CycleSeedTask(i) ==
    {[id |-> i, assigned_to |-> a, status |-> st, priority |-> "low", depends_on |-> d] :
        a \in AgentSet \cup {"risk_manager"}, st \in Statuses, d \in {0, i - 1}}

RECURSIVE CycleSeeds(_)
CycleSeeds(n) ==
    IF n = 0 THEN {<<>>}
    ELSE {Append(b, t) : b \in CycleSeeds(n - 1), t \in CycleSeedTask(n)}

\* the task_specs parsed from the PM's plan: assigned_to (one of the
\* valid_agents of line 1051; no engineer is started here) and depends_on
PlannedSpecs ==
    {[assigned_to |-> a, depends_on |-> d] :
        a \in {"data_scientist", "engineer"}, d \in {0, 1}}

PlannedTasks == {<<>>} \cup {<<x>> : x \in PlannedSpecs}
                       \cup {<<x, y>> : x \in PlannedSpecs, y \in PlannedSpecs}

\* lines 1014-1032: one add_task per task_spec
RECURSIVE AddPlanned(_, _)
AddPlanned(b, specs) ==
    IF specs = <<>> THEN b
    ELSE AddPlanned(AddTaskOn(b, specs[1].assigned_to, "medium", specs[1].depends_on),
                    Tail(specs))

\* pm_auto_plan, lines 933-1038: nothing is planned while a task is pending
PmAutoPlan(b, specs) ==
    IF Pending(b.tasks) # <<>> THEN b ELSE AddPlanned(b, specs)

\* the pipeline returned; phases 2-8 run and the next cycle calls
\* run_continuous_pipeline again
CycleNext ==
    /\ pl.pc \in {"complete", "exhausted", "deadlocked"}
    /\ \E specs \in PlannedTasks :
         /\ Len(tasks) + Len(specs) <= MaxCycleTasks
         /\ LET b == PmAutoPlan([tasks |-> tasks, next_id |-> next_id], specs)
            IN  /\ tasks' = b.tasks
                /\ next_id' = b.next_id
    /\ pl' = [pl EXCEPT !.pc = "round_start", !.round = 1, !.idx = 0,
                        !.executed_any = FALSE, !.cur = <<>>]
    /\ ckpt' = IF ckpt.present THEN RecoveryStartCycle(ckpt) ELSE ckpt
    /\ UNCHANGED <<ret, hist, seed, hm>>

InitCycles ==
    /\ \E n \in 0..MaxSeedTasks : tasks \in CycleSeeds(n)
    /\ next_id = Len(tasks) + 1
    /\ ret = NoRet
    /\ pl = [pc |-> "round_start", round |-> 1, idx |-> 0,
             executed_any |-> FALSE, cur |-> <<>>, monitor |-> "sleeping"]
    /\ hist = NoHist
    /\ seed = tasks
    /\ AgentIdle
    /\ ToolIdle
    /\ ServiceIdle
    /\ SupportIdleBut({"hm", "ckpt"})
    /\ hm \in {NoHealthMonitor, HealthMonitorStarted}
    /\ \E recovery \in BOOLEAN : ckpt = [NoCheckpoint EXCEPT !.present = recovery]

NextCycles ==
    \/ PipelineRoundStart /\ UNCHANGED <<agentVars, toolVars, serviceVars, allButPipeline>>
    \/ PipelineAgentIdle /\ UNCHANGED <<agentVars, toolVars, serviceVars, allButPipeline>>
    \/ PipelineStartTask /\ UNCHANGED <<agentVars, toolVars, serviceVars, allButPipeline>>
    \/ PipelineFinishTask /\ UNCHANGED <<agentVars, toolVars, serviceVars, allButPipeline>>
    \/ PipelineTaskRaises /\ UNCHANGED <<agentVars, toolVars, serviceVars, allButPipeline>>
    \/ PipelineRoundEnd /\ UNCHANGED <<agentVars, toolVars, serviceVars, allButPipeline>>
    \/ CycleNext /\ UNCHANGED <<agentVars, toolVars, serviceVars, allButPipeline>>

SpecCycles == InitCycles /\ [][NextCycles]_vars

\* a task keeps its place and its id, and its status changes only
\* todo -> in_progress, in_progress -> done, in_progress -> blocked
C27_StatusMoves ==
    /\ Len(tasks') >= Len(tasks)
    /\ \A i \in 1..Len(tasks) :
         /\ tasks'[i].id = tasks[i].id
         /\ tasks'[i].status # tasks[i].status =>
                <<tasks[i].status, tasks'[i].status>> \in
                    {<<"todo", "in_progress">>, <<"in_progress", "done">>,
                     <<"in_progress", "blocked">>}

\* get_next_task returns todo tasks only
C27_FinishedNotReturned ==
    \A a \in CycleAgents :
        GetNextTask(tasks, a) # <<>> => GetNextTask(tasks, a)[1].status = "todo"

\* a task whose execution starts was todo and was not started before
C27_StartedOnce ==
    (pl.pc = "agents" /\ pl'.pc \in {"executing", "blocked"}) =>
        /\ pl'.cur[1].id \notin {x[1] : x \in hist.started}
        /\ \A i \in 1..Len(tasks) :
               tasks[i].id = pl'.cur[1].id => tasks[i].status = "todo"

C32_DepOf(ts, i) ==
    IF ts[i].depends_on = 0 \/ \A j \in 1..Len(ts) : ts[j].id # ts[i].depends_on
    THEN 0
    ELSE CHOOSE j \in 1..Len(ts) :
            /\ ts[j].id = ts[i].depends_on
            /\ \A k \in 1..(j - 1) : ts[k].id # ts[i].depends_on

\* the position reached from i by following depends_on k times
RECURSIVE C32_Follow(_, _, _)
C32_Follow(ts, i, k) ==
    IF k = 0 \/ i = 0 THEN i ELSE C32_Follow(ts, C32_DepOf(ts, i), k - 1)

\* the task at position i is todo and lies on a cycle of todo tasks
C32_OnCycle(ts, i) ==
    \E k \in 1..Len(ts) :
        /\ C32_Follow(ts, i, k) = i
        /\ \A j \in 0..(k - 1) :
               C32_Follow(ts, i, j) # 0 /\ ts[C32_Follow(ts, i, j)].status = "todo"

C32_CycleTasks(ts) == {i \in 1..Len(ts) : C32_OnCycle(ts, i)}

CyclicSeedTask(i, n) ==
    {[id |-> i, assigned_to |-> a, status |-> st, priority |-> "low", depends_on |-> d] :
        a \in AgentSet, st \in {"todo", "in_progress", "done"}, d \in 0..n}

CyclicSeeds(n) ==
    {ts \in [1..n -> UNION {CyclicSeedTask(i, n) : i \in 1..n}] :
        /\ \A i \in 1..n : ts[i].id = i
        /\ C32_CycleTasks(ts) # {}}

InitCyclic ==
    /\ \E n \in 1..MaxSeedTasks : tasks \in CyclicSeeds(n)
    /\ next_id = Len(tasks) + 1
    /\ ret = NoRet
    /\ pl = [pc |-> "round_start", round |-> 1, idx |-> 0,
             executed_any |-> FALSE, cur |-> <<>>, monitor |-> "sleeping"]
    /\ hist = NoHist
    /\ seed = tasks
    /\ AgentIdle
    /\ ToolIdle
    /\ ServiceIdle
    /\ SupportIdleBut({"hm", "ckpt"})
    /\ hm = NoHealthMonitor
    /\ \E recovery \in BOOLEAN : ckpt = [NoCheckpoint EXCEPT !.present = recovery]

SpecCyclic == InitCyclic /\ [][NextCycles]_vars

\* get_next_task returns no task of a cycle, and none of them was started,
\* finished or made a run crash
C32_NeverReturned ==
    /\ \A a \in CycleAgents : \A i \in C32_CycleTasks(tasks) :
          GetNextTask(tasks, a) # <<>> => GetNextTask(tasks, a)[1].id # tasks[i].id
    /\ \A i \in C32_CycleTasks(seed) :
          /\ tasks[i].status = "todo"
          /\ \A x \in hist.started : x[1] # tasks[i].id
          /\ \A x \in hist.outcome : x[1] # tasks[i].id
          /\ pl.cur # <<>> => pl.cur[1].id # tasks[i].id

\* a task of a cycle stays one
C32_StaysOnCycle == C32_CycleTasks(tasks) \subseteq C32_CycleTasks(tasks')

\* C32: todo tasks whose depends_on pointers form a cycle (a task that
\* depends on itself included) are never returned by get_next_task, never
\* become done, and no error is raised for them; the pipeline stalls on them.
C32_CycleStallsSilently ==
    []C32_NeverReturned /\ [][C32_StaysOnCycle]_vars

\* C32 witness: a run ended without completing, with two todo tasks that
\* depend on each other left in the backlog.
C32_Witness ==
    /\ pl.pc \in {"deadlocked", "exhausted"}
    /\ \E i \in C32_CycleTasks(tasks) :
          C32_DepOf(tasks, i) # i /\ C32_DepOf(tasks, i) \in C32_CycleTasks(tasks)

(***************************************************************************)
(* Pipeline runs on a backlog the orchestrator built itself: tasks of      *)
(* started agents, todo or done, depending on nothing or on an earlier     *)
(* task.                                                                   *)
(***************************************************************************)
ProgressSeedTask(i) ==
    {[id |-> i, assigned_to |-> a, status |-> st, priority |-> "low", depends_on |-> d] :
        a \in AgentSet, st \in {"todo", "done"}, d \in 0..(i - 1)}

RECURSIVE ProgressSeeds(_)
ProgressSeeds(n) ==
    IF n = 0 THEN {<<>>}
    ELSE {Append(b, t) : b \in ProgressSeeds(n - 1), t \in ProgressSeedTask(n)}

InitProgress ==
    /\ \E n \in 1..MaxSeedTasks : tasks \in ProgressSeeds(n)
    /\ next_id = Len(tasks) + 1
    /\ ret = NoRet
    /\ pl = [pc |-> "round_start", round |-> 1, idx |-> 0,
             executed_any |-> FALSE, cur |-> <<>>, monitor |-> "sleeping"]
    /\ hist = NoHist
    /\ seed = tasks
    /\ AgentIdle
    /\ ToolIdle
    /\ ServiceIdle
    /\ SupportIdleBut({"ckpt"})
    /\ \E recovery \in BOOLEAN : ckpt = [NoCheckpoint EXCEPT !.present = recovery]

SpecProgress == InitProgress /\ [][NextCycles]_vars

\* asyncio runs the pipeline and main's cycle loop on: a step that can be
\* taken is taken
SpecProgressFair == SpecProgress /\ WF_vars(NextCycles)

\* the claim's conditions: every task belongs to a started agent, depends
\* on nothing or on an earlier existing task, and every execution returned
\* (no run crashed, no task is left in_progress or blocked)
C34_Conditions ==
    /\ pl.pc \notin {"crashed", "blocked"}
    /\ \A i \in 1..Len(tasks) :
          /\ tasks[i].assigned_to \in AgentSet
          /\ tasks[i].depends_on # 0 =>
                \E j \in 1..(i - 1) : tasks[j].id = tasks[i].depends_on
          /\ tasks[i].status \in {"todo", "done"}
                \/ (pl.pc = "executing" /\ tasks[i].id = pl.cur[1].id)

C34_AllDone == \A i \in 1..Len(tasks) : tasks[i].status = "done"

\* at the end of the agents loop of a round a task was executed
C34_RoundExecutes ==
    (C34_Conditions /\ pl.pc = "agents" /\ pl.idx > Len(AgentNames)) => pl.executed_any

\* an execution that returns marks its task done
C34_ExecutedIsDone ==
    (C34_Conditions /\ pl.pc = "executing" /\ pl'.pc = "agents") =>
        \A i \in 1..Len(tasks) : tasks[i].id = pl.cur[1].id => tasks'[i].status = "done"

\* C34: if every task is assigned to a started agent, every depends_on is
\* null or the id of an earlier existing task and every execution returns,
\* each round that starts with a todo task executes a task and marks it
\* done, and under repeated pipeline runs every task is eventually done.
C34_ProgressAndCompletion ==
    /\ []C34_RoundExecutes
    /\ [][C34_ExecutedIsDone]_vars
    /\ ([]C34_Conditions => <>C34_AllDone)

\* C34 witness: a task and the task that depends on it, both of one agent,
\* were executed in two rounds and every task is done.
C34_Witness ==
    /\ C34_Conditions
    /\ C34_AllDone
    /\ Len(tasks) >= 2
    /\ tasks[2].depends_on = 1
    /\ hist.started = {<<1, 1>>, <<2, 2>>}

\* the ids in the checkpoint: get_resume_info's completed_task_ids
C31_CompletedTaskIds ==
    {ckpt.completed_tasks[i] : i \in 1..Len(ckpt.completed_tasks)}

\* C31: a task is in the checkpoint's completed_tasks only after the agent
\* finished executing it; after a crash in the middle of a task the resume
\* info's completed_task_ids does not contain that task.
C31_CompletedOnlyAfterExecution ==
    /\ \A d \in C31_CompletedTaskIds :
          \E o \in hist.outcome : o[1] = d /\ o[2] # "raised"
    /\ pl.pc \in {"executing", "crashed"} => pl.cur[1].id \notin C31_CompletedTaskIds

\* the todo tasks of the backlog
C28_Todo == {i \in 1..Len(tasks) : tasks[i].status = "todo"}

\* the agents loop of a round is over and no agent received a task
C28_IdleRoundOver == pl.pc = "agents" /\ pl.idx > Len(AgentNames) /\ ~pl.executed_any

\* what the loop does at the end of such a round
C28_AfterIdleRound ==
    (C28_IdleRoundOver /\ pl'.pc # pl.pc) =>
        IF C28_Todo # {} /\ \A i \in C28_Todo : tasks[i].depends_on # 0
        THEN pl'.pc = "deadlocked"
        ELSE pl'.pc = "round_start" /\ pl'.round = pl.round + 1

\* deadlock is declared nowhere else, and the next round is run unless it
\* would be the eleventh
C28_OnlyThere ==
    /\ (pl.pc # "deadlocked" /\ pl'.pc = "deadlocked") => C28_IdleRoundOver
    /\ (pl.pc = "round_start" /\ pl'.pc # pl.pc /\ C15_Unfinished # {}) =>
            IF pl.round <= 10 THEN pl'.pc = "agents" ELSE pl'.pc = "exhausted"

\* C28: in a round in which no agent received a task and a todo task
\* remains, the loop declares deadlock and stops iff every remaining todo
\* task has a depends_on; otherwise (a todo task without depends_on, or only
\* in_progress tasks left) it goes on to the next round, up to the 10-round cap.
C28_DeadlockIffAllTodoDepend ==
    [][C28_AfterIdleRound /\ C28_OnlyThere]_vars

\* C28 witness: all ten rounds were run without any task being started while
\* a todo task without depends_on (of an agent that is not running) remained.
C28_Witness ==
    /\ pl.pc = "exhausted"
    /\ hist.started = {}
    /\ \E i \in C28_Todo : tasks[i].depends_on = 0
    /\ \E i \in C28_Todo : tasks[i].depends_on # 0

BlockKinds == {"block_ok", "block_err"}

JsonKinds == {"json_ok", "json_err", "json_bad", "json_type"}

LegacyKinds == {"cmd_ok", "cmd_err"}

SegmentKinds == {"text", "missing"} \cup BlockKinds \cup JsonKinds \cup LegacyKinds

RECURSIVE SeqsUpTo(_, _)
SeqsUpTo(S, n) ==
    IF n = 0 THEN {<<>>}
    ELSE LET shorter == SeqsUpTo(S, n - 1)
         IN  shorter \cup {Append(q, x) : q \in {r \in shorter : Len(r) = n - 1}, x \in S}

Thoughts == SeqsUpTo(SegmentKinds, MaxSegments)

\* re.findall(pattern, thought): the positions of the segments of these kinds
RECURSIVE FindAll(_, _, _)
FindAll(th, kinds, from) ==
    IF from > Len(th) THEN <<>>
    ELSE (IF th[from] \in kinds THEN <<from>> ELSE <<>>) \o FindAll(th, kinds, from + 1)

\* the line act appends for a segment: its tier prefix, whether the text holds
\* the substring "Error", and whether it reports a WRITE_FILE of a .py file
ResultLine(kind) ==
    CASE kind = "block_ok"  -> [tier |-> "BLOCK_CMD", error |-> FALSE, wrote_py |-> TRUE]
      [] kind = "block_err" -> [tier |-> "BLOCK_CMD", error |-> TRUE,  wrote_py |-> FALSE]
      [] kind = "json_ok"   -> [tier |-> "JSON_CMD",  error |-> FALSE, wrote_py |-> FALSE]
      [] kind = "json_err"  -> [tier |-> "JSON_CMD",  error |-> TRUE,  wrote_py |-> FALSE]
      [] kind = "json_bad"  -> [tier |-> "Error parsing JSON_CMD", error |-> TRUE, wrote_py |-> FALSE]
      [] kind = "cmd_ok"    -> [tier |-> "CMD",       error |-> FALSE, wrote_py |-> FALSE]
      [] OTHER              -> [tier |-> "CMD",       error |-> TRUE,  wrote_py |-> FALSE]

\* lines 225-234: the JSON_CMD loop over the matches from position k on; the
\* loop ends early, with an exception, at a match whose "tool" is not a string
\* (cmd_data.get('tool', '').upper() raises AttributeError, line 228, and only
\* json.JSONDecodeError is caught)
RECURSIVE JsonLoop(_, _, _)
JsonLoop(th, matches, k) ==
    IF k > Len(matches) THEN [raised |-> FALSE, applied |-> <<>>]
    ELSE IF th[matches[k]] = "json_type" THEN [raised |-> TRUE, applied |-> <<>>]
    ELSE LET rest == JsonLoop(th, matches, k + 1)
         IN  [raised |-> rest.raised, applied |-> <<matches[k]>> \o rest.applied]

\* Mutant of LegacyTried: the fallback looks only at the JSON_CMD matches.
LegacyTried_JsonOnly(block_applied, json_applied) == json_applied = <<>>

\* line 237: "if not results"
LegacyTried(block_applied, json_applied) == block_applied \o json_applied = <<>>

\* "\n".join(results): the lines of the report, in order
JoinLines(th, applied) == [i \in 1..Len(applied) |-> ResultLine(th[applied[i]])]

\* act(thought), lines 206-254
Act(th) ==
    LET block_applied == FindAll(th, BlockKinds, 1)
        json == JsonLoop(th, FindAll(th, JsonKinds, 1), 1)
        legacy_applied == IF ~json.raised /\ LegacyTried(block_applied, json.applied)
                          THEN FindAll(th, LegacyKinds, 1) ELSE <<>>
        applied == block_applied \o json.applied \o legacy_applied
    IN  [called  |-> TRUE,
         raised  |-> json.raised,
         applied |-> applied,
         report  |-> IF json.raised \/ applied = <<>>
                     THEN [none |-> TRUE, lines |-> <<>>]
                     ELSE [none |-> FALSE, lines |-> JoinLines(th, applied)]]

ActCall ==
    /\ ~act_out.called
    /\ act_out' = Act(thought)
    /\ UNCHANGED <<orchestratorVars, toolVars, serviceVars, thought, rt, last, failures, supportVars>>

OrchestratorIdle ==
    /\ tasks = <<>>
    /\ next_id = 1
    /\ ret = NoRet
    /\ pl = PipelineIdle
    /\ hist = NoHist
    /\ seed = <<>>

InitAct ==
    /\ OrchestratorIdle
    /\ thought \in Thoughts
    /\ act_out = NoAct
    /\ rt = RetryIdle
    /\ last = NoRound
    /\ failures = <<>>
    /\ ToolIdle
    /\ ServiceIdle
    /\ SupportIdle

NextAct == ActCall

SpecAct == InitAct /\ [][NextAct]_vars

(***************************************************************************)
(* Claims about act, checked under SpecAct.                                *)
(***************************************************************************)
C9_Positions(kinds) == {i \in 1..Len(thought) : thought[i] \in kinds}

C9_AppliedSet == {act_out.applied[k] : k \in 1..Len(act_out.applied)}

\* the tier of a segment: 1 WRITE_FILE block, 2 JSON_CMD, 3 legacy CMD
C9_Tier(i) ==
    IF thought[i] \in BlockKinds THEN 1 ELSE IF thought[i] \in JsonKinds THEN 2 ELSE 3

\* the applied segments are in tier order, and in text order within a tier
C9_InTierOrder ==
    \A k \in 1..Len(act_out.applied), m \in 1..Len(act_out.applied) :
        k < m =>
            \/ C9_Tier(act_out.applied[k]) < C9_Tier(act_out.applied[m])
            \/ /\ C9_Tier(act_out.applied[k]) = C9_Tier(act_out.applied[m])
               /\ act_out.applied[k] < act_out.applied[m]

\* the report has one line per applied segment, in that order, and is None
\* exactly when nothing was applied
C9_ReportMatches ==
    /\ act_out.report.none <=> (act_out.applied = <<>>)
    /\ Len(act_out.report.lines) = Len(act_out.applied)
    /\ \A k \in 1..Len(act_out.applied) :
           LET kind == thought[act_out.applied[k]]
               line == act_out.report.lines[k]
           IN  /\ (line.tier = "BLOCK_CMD") <=> (kind \in BlockKinds)
               /\ (line.tier = "CMD") <=> (kind \in LegacyKinds)
               /\ (line.tier = "JSON_CMD") <=> (kind \in {"json_ok", "json_err"})
               /\ (line.tier = "Error parsing JSON_CMD") <=> (kind = "json_bad")
               /\ line.error <=> (kind \in {"block_err", "json_err", "json_bad", "cmd_err"})

C9_FirstBadTool ==
    LET bad == {i \in 1..Len(thought) : thought[i] = "json_type"}
    IN  IF bad = {} THEN Len(thought) + 1
        ELSE CHOOSE i \in bad : \A j \in bad : i <= j

ErrorTexts == {"llm_error", "no_llm"}

\* what think returns in a round: the empty string, a text containing
\* "Error thinking" (line 194), or a reply made of segments
ThinkReplies ==
    {[kind |-> "empty", segs |-> <<>>], [kind |-> "error_thinking", segs |-> <<>>]}
    \cup {[kind |-> "text", segs |-> <<k>>] : k \in SegmentKinds \cup ErrorTexts}
    \cup {[kind |-> "text", segs |-> q] : q \in {<<>>, <<"block_ok", "missing">>}}

\* a check that also takes the LLM client's error text for a failed thought
ThinkingFailed_AnyError(reply) ==
    reply.kind # "text" \/ \E i \in 1..Len(reply.segs) : reply.segs[i] = "llm_error"

\* line 340: not thought or "Error thinking" in thought
ThinkingFailed(reply) == reply.kind # "text"

\* what running a written .py file can give, _auto_run_code lines 424-455:
\*   clean          exit 0, nothing on stderr, no "Error"/"Traceback" on stdout
\*   stdout_error   exit 0, stdout contains "Error" or "Traceback"
\*   stderr_warning exit 0, something on stderr
\*   exit_traceback exit code not 0, stderr holds a traceback
\*   exit_plain     exit code not 0, stderr holds text without "Error"/"Traceback"
\*   exit_silent    exit code not 0, nothing on stderr
\*   timeout        subprocess.TimeoutExpired
\*   launch_error   subprocess.run raised another exception
\*   not_found      the file is at neither path, it is skipped
RunOutcomes ==
    {"clean", "stdout_error", "stderr_warning", "exit_traceback", "exit_plain",
     "exit_silent", "timeout", "launch_error", "not_found"}

\* result.returncode != 0
RunExitNonZero(o) == o \in {"exit_traceback", "exit_plain", "exit_silent"}

\* result.stderr is not empty
RunWroteStderr(o) == o \in {"stderr_warning", "exit_traceback", "exit_plain"}

\* the text _auto_run_code returns for the outcome contains "Error" or
\* "Traceback": the OK line carries stdout only (line 449), the FAILED line
\* carries stderr (line 446), the TIMEOUT line neither (line 453), the
\* exception line the word "Error" (line 455)
RunTextHasError(o) == o \in {"stdout_error", "exit_traceback", "launch_error"}

\* line 348: action_result and "Error" in action_result
ReportHasError(report) ==
    /\ ~report.none
    /\ \E k \in 1..Len(report.lines) : report.lines[k].error

\* line 419: the WRITE_FILE lines of the report that name a .py file
WrittenPyFiles(report) ==
    IF report.none THEN {}
    ELSE {k \in 1..Len(report.lines) : report.lines[k].wrote_py}

\* validate_output, lines 392-407: some file named in the thought is missing
SomePromisedFileMissing(th) == \E i \in 1..Len(th) : th[i] = "missing"

\* keep the last n elements, s[-n:]
LastN(s, n) == IF Len(s) <= n THEN s ELSE SubSeq(s, Len(s) - n + 1, Len(s))

\* memory.py line 85
FailureCap == 30

\* Mutant of RememberFailure: the record is not stored.
RememberFailure_Dropped(fs, task_title, error, round_failed) == fs

\* a remember_failure that keeps the first records
RememberFailure_KeepFirst(fs, task_title, error, round_failed) ==
    IF Len(fs) >= FailureCap THEN fs
    ELSE Append(fs, [task |-> task_title, error |-> error, round |-> round_failed])

\* AgentMemory.remember_failure, memory.py lines 73-86
RememberFailure(fs, task_title, error, round_failed) ==
    LastN(Append(fs, [task |-> task_title, error |-> error, round |-> round_failed]),
          FailureCap)

\* the round ends without success ("continue"): last_error is set; a round
\* that ends in think or in act counts that call
RoundFails(err, think_ok, act_error, run, missing) ==
    /\ rt' = [rt EXCEPT !.pc = "round", !.round_num = @ + 1, !.last_error = err,
                        !.run = "none",
                        !.think_calls = IF rt.pc = "round" THEN @ + 1 ELSE @,
                        !.act_calls = IF rt.pc = "act" THEN @ + 1 ELSE @]
    /\ last' = [round |-> rt.round_num, think_ok |-> think_ok, act_error |-> act_error,
                run |-> run, missing |-> missing, success |-> FALSE, error |-> err]

\* execute_with_retry(task_description, max_rounds) is called, lines 315-326
RetryCall ==
    /\ rt.pc \in {"idle", "returned", "raised"}
    /\ rt.calls < MaxCalls
    /\ \E n \in 0..MaxRounds :
         rt' = [RetryIdle EXCEPT !.pc = "round", !.max_rounds = n, !.round_num = 1,
                                 !.calls = rt.calls + 1, !.failures_before = failures]
    /\ last' = NoRound
    /\ thought' = <<>>
    /\ act_out' = NoAct
    /\ UNCHANGED <<orchestratorVars, toolVars, serviceVars, failures, supportVars>>

\* lines 328-340: a round starts, the context gets the previous error, think
\* is called
RetryThink ==
    /\ rt.pc = "round"
    /\ rt.round_num <= rt.max_rounds
    /\ \E reply \in ThinkReplies :
         IF ThinkingFailed(reply)
         THEN /\ RoundFails([kind |-> "thinking", round |-> rt.round_num],
                            FALSE, FALSE, "none", FALSE)
              /\ thought' = reply.segs
         ELSE /\ rt' = [rt EXCEPT !.pc = "act", !.ctx_error = rt.last_error,
                                  !.think_calls = @ + 1]
              /\ thought' = reply.segs
              /\ last' = last
    /\ act_out' = NoAct
    /\ UNCHANGED <<orchestratorVars, toolVars, serviceVars, failures, supportVars>>

\* lines 343-351: act
RetryAct ==
    /\ rt.pc = "act"
    /\ LET out == Act(thought)
       IN  /\ act_out' = out
           /\ IF out.raised
              THEN /\ rt' = [rt EXCEPT !.pc = "raised", !.act_calls = @ + 1]
                   /\ last' = last
              ELSE IF ReportHasError(out.report)
              THEN RoundFails([kind |-> "action", round |-> rt.round_num],
                              TRUE, TRUE, "none", FALSE)
              ELSE /\ rt' = [rt EXCEPT !.pc = "auto_run", !.act_calls = @ + 1]
                   /\ last' = last
    /\ UNCHANGED <<orchestratorVars, toolVars, serviceVars, thought, failures, supportVars>>

\* lines 354-360: the written .py files are run
RetryAutoRun ==
    /\ rt.pc = "auto_run"
    /\ IF WrittenPyFiles(act_out.report) = {}
       THEN /\ rt' = [rt EXCEPT !.pc = "validate", !.run = "none"]
            /\ last' = last
       ELSE \E o \in RunOutcomes :
              IF RunTextHasError(o)
              THEN RoundFails([kind |-> "code", round |-> rt.round_num],
                              TRUE, FALSE, o, FALSE)
              ELSE /\ rt' = [rt EXCEPT !.pc = "validate", !.run = o]
                   /\ last' = last
    /\ UNCHANGED <<orchestratorVars, toolVars, serviceVars, thought, act_out, failures, supportVars>>

\* lines 363-373: validation, and the return of a success
RetryValidate ==
    /\ rt.pc = "validate"
    /\ IF SomePromisedFileMissing(thought)
       THEN RoundFails([kind |-> "validation", round |-> rt.round_num],
                       TRUE, FALSE, rt.run, TRUE)
       ELSE /\ rt' = [rt EXCEPT !.pc = "returned",
                         !.result = [status |-> "success", error |-> NoError,
                                     rounds |-> rt.round_num]]
            /\ last' = [round |-> rt.round_num, think_ok |-> TRUE, act_error |-> FALSE,
                        run |-> rt.run, missing |-> FALSE, success |-> TRUE,
                        error |-> NoError]
    /\ UNCHANGED <<orchestratorVars, toolVars, serviceVars, thought, act_out, failures, supportVars>>

\* lines 375-385: all rounds exhausted
RetryExhausted ==
    /\ rt.pc = "round"
    /\ rt.round_num > rt.max_rounds
    /\ failures' = IF rt.last_error # NoError
                   THEN RememberFailure(failures, "task", rt.last_error, rt.max_rounds)
                   ELSE failures
    /\ rt' = [rt EXCEPT !.pc = "returned",
                 !.result = [status |-> "partial", error |-> rt.last_error,
                             rounds |-> rt.max_rounds]]
    /\ UNCHANGED <<orchestratorVars, toolVars, serviceVars, thought, act_out, last, supportVars>>

InitRetry ==
    /\ OrchestratorIdle
    /\ AgentIdle
    /\ ToolIdle
    /\ ServiceIdle
    /\ SupportIdle

NextRetry ==
    \/ RetryCall
    \/ RetryThink
    \/ RetryAct
    \/ RetryAutoRun
    \/ RetryValidate
    \/ RetryExhausted

SpecRetry == InitRetry /\ [][NextRetry]_vars

(***************************************************************************)
(* Claims about execute_with_retry, checked under SpecRetry.               *)
(***************************************************************************)
\* C4 (as claimed): execute_with_retry with max_rounds = N terminates, makes
\* at most N think and N act calls, never raises, and returns a result whose
\* status is success or partial.
C4_AlwaysReturnsWithinNRounds ==
    /\ rt.pc # "raised"
    /\ rt.think_calls <= rt.max_rounds
    /\ rt.act_calls <= rt.max_rounds
    /\ rt.round_num <= rt.max_rounds + 1
    /\ rt.pc = "returned" => rt.result.status \in {"success", "partial"}

\* the auto-run of the round produced a failure: a FAILED entry (exit code not
\* 0), a TIMEOUT entry, an exception entry, or an output the loop reads as a
\* failure because it contains "Error" or "Traceback"
C5_RunFailed(o) ==
    RunExitNonZero(o) \/ o \in {"timeout", "launch_error"} \/ RunTextHasError(o)

\* C5 (as claimed): a round returns success exactly when its act report has no
\* "Error", its auto-run produced no failure and no promised file is missing;
\* a success carries the number of that round; the error of every other round
\* is in the context of the next round's think.
C5_SuccessExactlyInCleanRound ==
    /\ (last.round # 0 /\ last.think_ok) =>
           /\ last.success <=>
                  (~last.act_error /\ ~C5_RunFailed(last.run) /\ ~last.missing)
           /\ last.success =>
                  (rt.pc = "returned" /\ rt.result.status = "success"
                   /\ rt.result.rounds = last.round)
    /\ (rt.pc \in {"act", "auto_run", "validate"} /\ rt.round_num > 1) =>
           /\ last.round = rt.round_num - 1
           /\ ~last.success
           /\ last.error # NoError
           /\ rt.ctx_error = last.error

\* C6: when all max_rounds rounds fail, the result is {status: partial, error:
\* the error of the last round, rounds: max_rounds} and exactly one failure
\* record for the task is appended to the agent's memory; no failure record is
\* written when a round succeeds.
C6_PartialResultAndOneFailureRecord ==
    (rt.pc = "returned" /\ rt.max_rounds >= 1) =>
        /\ (last.round = rt.max_rounds /\ ~last.success) =>
               rt.result.status = "partial"
        /\ rt.result.status = "partial" =>
               /\ last.round = rt.max_rounds
               /\ ~last.success
               /\ last.error.round = rt.max_rounds
               /\ rt.result = [status |-> "partial", error |-> last.error,
                               rounds |-> rt.max_rounds]
               /\ failures = Append(rt.failures_before,
                                    [task |-> "task", error |-> last.error,
                                     round |-> rt.max_rounds])
        /\ rt.result.status = "success" => failures = rt.failures_before

\* C6 witness: a second call with max_rounds = 2 failed in both rounds and
\* returned partial; the memory held a record already and got one more.
C6_Witness ==
    /\ rt.pc = "returned"
    /\ rt.max_rounds = 2
    /\ rt.result.status = "partial"
    /\ rt.result.error.round = 2
    /\ Len(rt.failures_before) = 1
    /\ Len(failures) = 2

\* the thought is a non-empty text without command marker or file name
C29_PlainThought ==
    /\ thought # <<>>
    /\ \A i \in 1..Len(thought) : thought[i] \in {"text"} \cup ErrorTexts

C8_BadAutoRunFailsRound ==
    (last.round # 0 /\ (RunExitNonZero(last.run) \/ RunWroteStderr(last.run))) =>
        /\ ~last.success
        /\ last.error.kind = "code"

(***************************************************************************)
(* AgentTools.run_command (src/src/utils/agent_tools.py).                  *)
(* A command string is the sequence of its characters, so that strip,      *)
(* startswith, lower and "in" are computed on the text as Python does.     *)
(***************************************************************************)
MaxCmdCalls == 2

\* allowed_cmds = ["python", "dir", "ls", "pip", "git"]
allowed_cmds ==
    <<<<"p", "y", "t", "h", "o", "n">>,
      <<"d", "i", "r">>,
      <<"l", "s">>,
      <<"p", "i", "p">>,
      <<"g", "i", "t">>>>

\* blocked_patterns, in the order of the list
blocked_patterns ==
    <<<<"r", "m", " ", "-", "r", "f">>,
      <<"d", "e", "l", " ", "/", "s">>,
      <<"f", "o", "r", "m", "a", "t">>,
      <<"s", "h", "u", "t", "d", "o", "w", "n">>,
      <<"&", "&">>,
      <<"|", "|">>,
      <<"|">>,
      <<">", ">">>,
      <<"c", "u", "r", "l">>,
      <<"w", "g", "e", "t">>,
      <<"p", "o", "w", "e", "r", "s", "h", "e", "l", "l">>,
      <<"c", "m", "d", " ", "/", "c">>>>

\* the program names the LLM may put first in a command
CommandHeads ==
    { <<"p", "y", "t", "h", "o", "n">>,
      <<"P", "y", "t", "h", "o", "n">>,
      <<" ", "p", "y", "t", "h", "o", "n">>,
      <<"p", "y", "t", "h", "o", "n", "w">>,
      <<"l", "s">>,
      <<"g", "i", "t">>,
      <<"c", "u", "r", "l">>}

\* what may follow the program name
CommandTails ==
    { <<>>,
      <<" ", "f", "o", "o", ".", "p", "y", " ", "&", "&", " ", "r", "m", " ", "-", "r", "f", " ", "/">>,
      <<" ", "h", "t", "t", "p", ":", "/", "/", "e", "v", "i", "l">>,
      <<" ", "C", "U", "R", "L", " ", "x">>,
      <<" ", "f", "o", "r", "m", "a", "t", ".", "p", "y">>}

\* the command strings run_command is called with
Commands == {h \o t : h \in CommandHeads, t \in CommandTails}

Uppercase ==
    <<"A", "B", "C", "D", "E", "F", "G", "H", "I", "J", "K", "L", "M">>
    \o <<"N", "O", "P", "Q", "R", "S", "T", "U", "V", "W", "X", "Y", "Z">>

Lowercase ==
    <<"a", "b", "c", "d", "e", "f", "g", "h", "i", "j", "k", "l", "m">>
    \o <<"n", "o", "p", "q", "r", "s", "t", "u", "v", "w", "x", "y", "z">>

\* str.lower, one character
LowerChar(ch) ==
    IF \E i \in 1..Len(Uppercase) : Uppercase[i] = ch
    THEN Lowercase[CHOOSE i \in 1..Len(Uppercase) : Uppercase[i] = ch]
    ELSE ch

\* command.lower()
Lower(s) == [i \in 1..Len(s) |-> LowerChar(s[i])]

Whitespace == {" ", "\t", "\n"}

RECURSIVE LStrip(_)
LStrip(s) ==
    IF s # <<>> /\ Head(s) \in Whitespace THEN LStrip(Tail(s)) ELSE s

RECURSIVE RStrip(_)
RStrip(s) ==
    IF s # <<>> /\ s[Len(s)] \in Whitespace
    THEN RStrip(SubSeq(s, 1, Len(s) - 1))
    ELSE s

\* command.strip()
Strip(s) == RStrip(LStrip(s))

\* s.startswith(p)
StartsWith(s, p) == Len(p) <= Len(s) /\ SubSeq(s, 1, Len(p)) = p

\* p in s
Contains(s, p) ==
    \E i \in 1..(Len(s) - Len(p) + 1) : SubSeq(s, i, i + Len(p) - 1) = p

\* any(command.strip().startswith(cmd) for cmd in allowed_cmds)
Allowed(command) ==
    \E k \in 1..Len(allowed_cmds) : StartsWith(Strip(command), allowed_cmds[k])

\* a blocklist check that finds nothing
FirstBlockedPattern_Skipped(command) == 0

\* the loop over blocked_patterns: the index of the first pattern of the list
\* found in command.lower(), 0 when none is found
FirstBlockedPattern(command) ==
    LET cmd_lower == Lower(command)
        hits == {k \in 1..Len(blocked_patterns) :
                    Contains(cmd_lower, blocked_patterns[k])}
    IN  IF hits = {} THEN 0 ELSE CHOOSE k \in hits : \A m \in hits : k <= m

\* the two checks of run_command on each command it is called with
Checks ==
    [command \in Commands |->
        [allowed |-> Allowed(command), pattern |-> FirstBlockedPattern(command)]]

\* what subprocess.run of an accepted command leads run_command to return
ShellReturns ==
    {"output", "Command executed with no output.",
     "Error: Command timed out.", "Error running command"}

\* run_command(command)
RunCommand ==
    /\ cmd_out.calls < MaxCmdCalls
    /\ \E command \in Commands :
        /\ cmd' = command
        /\ IF ~Checks[command].allowed
           THEN /\ cmd_out' = [calls    |-> cmd_out.calls + 1,
                               kind     |-> "not_allowed",
                               pattern  |-> 0,
                               returned |-> "Error: Command not allowed"]
                /\ shell_log' = shell_log
           ELSE IF Checks[command].pattern # 0
           THEN /\ cmd_out' = [calls    |-> cmd_out.calls + 1,
                               kind     |-> "blocked",
                               pattern  |-> Checks[command].pattern,
                               returned |-> "Error: Blocked pattern"]
                /\ shell_log' = shell_log
           ELSE /\ \E r \in ShellReturns :
                    cmd_out' = [calls    |-> cmd_out.calls + 1,
                                kind     |-> "ran",
                                pattern  |-> 0,
                                returned |-> r]
                /\ shell_log' = Append(shell_log, command)
    /\ UNCHANGED <<orchestratorVars, agentVars, serviceVars, files, file_out, supportVars>>

InitCmd ==
    /\ OrchestratorIdle
    /\ AgentIdle
    /\ ToolIdle
    /\ ServiceIdle
    /\ SupportIdle

NextCmd == RunCommand

SpecCmd == InitCmd /\ [][NextCmd]_vars

(***************************************************************************)
(* Claims about run_command, checked under SpecCmd.                        *)
(***************************************************************************)
C10_Curl == <<"c", "u", "r", "l", " ", "h", "t", "t", "p", ":", "/", "/", "e", "v", "i", "l">>

C10_PythonAndRm ==
    <<"p", "y", "t", "h", "o", "n", " ", "f", "o", "o", ".", "p", "y", " ">>
    \o <<"&", "&", " ", "r", "m", " ", "-", "r", "f", " ", "/">>

\* the command starts, after surrounding whitespace, with an allowlisted name
C10_StartsAllowlisted(c) ==
    \E n \in {allowed_cmds[k] : k \in 1..Len(allowed_cmds)} :
        \E rest \in {SubSeq(Strip(c), j, Len(Strip(c))) : j \in 1..(Len(Strip(c)) + 1)} :
            Strip(c) = n \o rest

\* some blocklisted substring occurs in the command, in any letter case
C10_HasBlocklisted(c) ==
    \E i \in 1..Len(c), j \in 1..Len(c) :
        Lower(SubSeq(c, i, j)) \in {blocked_patterns[k] : k \in 1..Len(blocked_patterns)}

\* the commands that pass both checks
C10_Permitted ==
    {c \in Commands : C10_StartsAllowlisted(c) /\ ~C10_HasBlocklisted(c)}

\* the commands that start with no allowlisted name
C10_NotAllowlisted == {c \in Commands : ~C10_StartsAllowlisted(c)}

\* the commands that start with an allowlisted name and hold a blocklisted
\* substring
C10_AllowlistedButBlocked ==
    {c \in Commands : C10_StartsAllowlisted(c) /\ C10_HasBlocklisted(c)}

C10_Rejections == {"Error: Command not allowed", "Error: Blocked pattern"}

\* a call executes its command exactly when both checks pass, and otherwise
\* returns a rejection and hands nothing to the shell
C10_CallChecked ==
    cmd_out'.calls # cmd_out.calls =>
        IF cmd' \in C10_Permitted
        THEN /\ cmd_out'.kind = "ran"
             /\ shell_log' = Append(shell_log, cmd')
        ELSE /\ cmd_out'.returned \in C10_Rejections
             /\ shell_log' = shell_log

\* nothing that fails a check is ever handed to the shell
C10_OnlyCheckedCommandsRun ==
    \A k \in 1..Len(shell_log) : shell_log[k] \in C10_Permitted

\* C10 as stated: run_command executes a command only if it starts with an
\* allowlisted program name and contains no blocklisted substring, otherwise
\* it returns an error string and executes nothing; "curl http://evil" is
\* rejected by a blocklist hit and "python foo.py && rm -rf /" is rejected by
\* the blocklist.
C10_CurlIsBlocklistHit ==
    /\ C10_OnlyCheckedCommandsRun
    /\ (cmd_out.calls > 0 /\ cmd = C10_Curl) => cmd_out.kind = "blocked"
    /\ (cmd_out.calls > 0 /\ cmd = C10_PythonAndRm) => cmd_out.kind = "blocked"

\* C10 amended: run_command executes a command exactly when it starts (after
\* surrounding whitespace, case-sensitively) with an allowlisted program name
\* and contains (in any letter case) no blocklisted substring; otherwise it
\* returns an error string and executes nothing. The allowlist is checked
\* first and the blocklist only for allowlisted commands: "curl http://evil"
\* is rejected by the allowlist check ("Command not allowed"), and
\* "python foo.py && rm -rf /" is rejected by the blocklist.
C10_BothChecksAllowlistFirst ==
    /\ [][C10_CallChecked]_vars
    /\ [](/\ C10_OnlyCheckedCommandsRun
          /\ cmd_out.kind = "not_allowed" <=>
                (cmd_out.calls > 0 /\ cmd \in C10_NotAllowlisted)
          /\ cmd_out.kind = "blocked" <=>
                (cmd_out.calls > 0 /\ cmd \in C10_AllowlistedButBlocked)
          /\ (cmd_out.calls > 0 /\ cmd = C10_Curl) =>
                cmd_out.kind = "not_allowed"
          /\ (cmd_out.calls > 0 /\ cmd = C10_PythonAndRm) =>
                cmd_out.kind = "blocked")

\* C10 witness: after an accepted command ran, "curl http://evil" was rejected.
C10_Witness ==
    /\ cmd = C10_Curl
    /\ cmd_out.kind = "not_allowed"
    /\ shell_log # <<>>

(***************************************************************************)
(* AgentTools.write_file / read_file (src/src/utils/agent_tools.py).       *)
(* File names and paths are character sequences; the file system resolves  *)
(* a path to the sequence of its components, as open() does.               *)
(***************************************************************************)
\* self.workspace_dir: two levels below the root, as <repo>/workspace
workspace_dir == <<"/", "r", "e", "p", "o", "/", "w", "s">>

\* the directories of the file system, as resolved paths
Directories ==
    {<<>>, <<<<"r", "e", "p", "o">>>>, <<<<"r", "e", "p", "o">>, <<"w", "s">>>>, <<<<"e", "t", "c">>>>}

\* the file names the LLM may pass to write_file and read_file
Filenames ==
    { <<"a", ".", "p", "y">>,
      <<".", ".", "/", ".", ".", "/", "e", "t", "c", "/", "p", "a", "s", "s", "w", "d">>,
      <<"/", "e", "t", "c", "/", "p", "a", "s", "s", "w", "d">>,
      <<"s", "u", "b", "/", "a", ".", "p", "y">>,
      <<"o", "u", "t", "/", "b", ".", "p", "y">>,
      <<".", ".">>,
      <<"s", "u", "b", "/">>,
      <<".">>}

FileContents == {"x", "y"}

\* the index of the last "/" of p, 0 when there is none: p.rfind("/") + 1
LastSlash(p) ==
    IF \E i \in 1..Len(p) : p[i] = "/"
    THEN CHOOSE i \in 1..Len(p) : p[i] = "/" /\ \A j \in (i + 1)..Len(p) : p[j] # "/"
    ELSE 0

\* a path sanitizer that keeps the file name as it is
Basename_Kept(p) == p

\* os.path.basename (posixpath): what follows the last "/"
Basename(p) == SubSeq(p, LastSlash(p) + 1, Len(p))

\* os.path.join(a, b) (posixpath)
PathJoin(a, b) ==
    IF b # <<>> /\ b[1] = "/" THEN b
    ELSE IF a = <<>> \/ a[Len(a)] = "/" THEN a \o b
    ELSE a \o <<"/">> \o b

\* _get_safe_path
GetSafePath(filename) == PathJoin(workspace_dir, Basename(filename))

\* path resolution by the operating system: the components of an absolute
\* path, with "", "." skipped and ".." removing the component before it
RECURSIVE Resolve(_, _)
Resolve(p, done) ==
    IF p = <<>> THEN done
    ELSE LET n    == IF \E i \in 1..Len(p) : p[i] = "/"
                     THEN (CHOOSE i \in 1..Len(p) :
                              p[i] = "/" /\ \A j \in 1..(i - 1) : p[j] # "/") - 1
                     ELSE Len(p)
             name == SubSeq(p, 1, n)
             rest == SubSeq(p, n + 2, Len(p))
         IN  IF name = <<>> \/ name = <<".">> THEN Resolve(rest, done)
             ELSE IF name = <<".", ".">>
                  THEN Resolve(rest, SubSeq(done, 1, Len(done) - 1))
             ELSE Resolve(rest, Append(done, name))

\* open(filepath, ...) can open the path as a regular file for writing: it is
\* not a directory and its parent directory exists
Writable(path) ==
    /\ path \notin Directories
    /\ path # <<>>
    /\ SubSeq(path, 1, Len(path) - 1) \in Directories

\* write_file(filename, content)
ToolWriteFile ==
    /\ \E filename \in Filenames, content \in FileContents :
        LET path == Resolve(GetSafePath(filename), <<>>)
        IN  IF Writable(path)
            THEN /\ files' = [q \in DOMAIN files \cup {path} |->
                              IF q = path THEN content ELSE files[q]]
                 /\ file_out' = [op |-> "write_file", filename |-> filename,
                               path |-> path,
                               returned |-> "Successfully wrote to"]
            ELSE /\ files' = files
                 /\ file_out' = [op |-> "write_file", filename |-> filename,
                               path |-> path,
                               returned |-> "Error writing file"]
    /\ UNCHANGED <<orchestratorVars, agentVars, serviceVars, cmd, cmd_out, shell_log, supportVars>>

\* read_file(filename)
ToolReadFile ==
    /\ \E filename \in Filenames :
        LET path == Resolve(GetSafePath(filename), <<>>)
        IN  file_out' = [op |-> "read_file", filename |-> filename, path |-> path,
                       returned |->
                           IF path \notin DOMAIN files \cup Directories
                           THEN "Error: File does not exist"
                           ELSE IF path \in Directories
                           THEN "Error reading file"
                           ELSE files[path]]
    /\ UNCHANGED <<orchestratorVars, agentVars, serviceVars, cmd, cmd_out, shell_log, files, supportVars>>

InitFiles ==
    /\ OrchestratorIdle
    /\ AgentIdle
    /\ ToolIdle
    /\ ServiceIdle
    /\ SupportIdle

NextFiles ==
    \/ ToolWriteFile
    \/ ToolReadFile

SpecFiles == InitFiles /\ [][NextFiles]_vars

(***************************************************************************)
(* Claims about write_file / read_file, checked under SpecFiles.           *)
(***************************************************************************)
C11_Workspace == <<<<"r", "e", "p", "o">>, <<"w", "s">>>>

C11_Traversal == <<".", ".", "/", ".", ".", "/", "e", "t", "c", "/", "p", "a", "s", "s", "w", "d">>

\* the name that is left of a file name when everything up to and including
\* its last "/" is dropped
C11_LastName(f) ==
    CHOOSE n \in {SubSeq(f, i, Len(f)) : i \in 1..(Len(f) + 1)} :
        /\ \A k \in 1..Len(n) : n[k] # "/"
        /\ \A m \in {SubSeq(f, i, Len(f)) : i \in 1..(Len(f) + 1)} :
              (\A k \in 1..Len(m) : m[k] # "/") => Len(m) <= Len(n)

\* C11: write_file and read_file touch only workspace_dir/basename(filename):
\* directory components are dropped, not rejected; every regular file ever
\* written is directly inside the workspace directory and no file outside it is
\* changed; write_file("../../etc/passwd", "x") writes the file passwd in the
\* workspace directory.
C11_OnlyWorkspaceBasenameTouched ==
    /\ \A q \in DOMAIN files :
          \/ q \in DOMAIN FilesAtStart /\ files[q] = FilesAtStart[q]
          \/ Len(q) = Len(C11_Workspace) + 1
             /\ SubSeq(q, 1, Len(C11_Workspace)) = C11_Workspace
    /\ file_out.op # "none" =>
          file_out.path =
              Resolve(workspace_dir \o <<"/">> \o C11_LastName(file_out.filename), <<>>)
    /\ (file_out.op = "write_file" /\ file_out.filename = C11_Traversal) =>
          /\ file_out.path = Append(C11_Workspace, <<"p", "a", "s", "s", "w", "d">>)
          /\ file_out.returned = "Successfully wrote to"
          /\ file_out.path \in DOMAIN files

\* C11 witness: the traversal name was written, and read back from the
\* workspace.
C11_Witness ==
    /\ file_out.op = "read_file"
    /\ file_out.filename = C11_Traversal
    /\ file_out.returned \in FileContents

(***************************************************************************)
(* The backlog document with its timestamps: add_task, update_status       *)
(* (src/src/utils/backlog_manager.py) and assign_initial_tasks             *)
(* (src/scripts/start_agents.py). doc.completed_at[i] is the completed_at  *)
(* of tasks[i]; every call reads a later datetime.now().                   *)
(***************************************************************************)
\* number of BacklogManager calls in one run of the timestamp specification
MaxClock == 4

\* the task ids update_status is called with
DocTaskIds == 1..3

DocStatuses == {"todo", "in_progress", "done"}

\* a completed_at rule that clears the timestamp of a task that is not done
CompletedAtAfter_Cleared(completed_at, status, time) ==
    IF status = "done" THEN time ELSE 0

\* lines 85-86: completed_at is written when the status is "done"
CompletedAtAfter(completed_at, status, time) ==
    IF status = "done" THEN time ELSE completed_at

\* a seeding guard that always seeds
BacklogEmpty_Always(ts) == TRUE

\* line 460: not backlog.get_all_tasks()
BacklogEmpty(ts) == ts = <<>>

\* lines 463-495: the five add_task calls, each depends_on taken from the
\* task returned by an earlier call
SeedFive(b) ==
    LET b1 == AddTaskOn(b, "data_scientist", "critical", 0)
        t1 == b1.tasks[Len(b1.tasks)]
        b2 == AddTaskOn(b1, "data_scientist", "high", t1.id)
        t2 == b2.tasks[Len(b2.tasks)]
        b3 == AddTaskOn(b2, "quant_analyst", "high", t2.id)
        t3 == b3.tasks[Len(b3.tasks)]
        b4 == AddTaskOn(b3, "engineer", "high", t3.id)
    IN  AddTaskOn(b4, "devops", "medium", 0)

\* add_task(title, assigned_to) with the default priority and depends_on
DocAddTask ==
    /\ doc.now < MaxClock
    /\ \E a \in AgentSet :
        LET b == AddTaskOn([tasks |-> tasks, next_id |-> next_id], a, "medium", 0)
        IN  /\ tasks' = b.tasks
            /\ next_id' = b.next_id
            /\ doc' = [completed_at |-> Append(doc.completed_at, 0),
                       now |-> doc.now + 1, op |-> "add_task",
                       task_id |-> b.tasks[Len(b.tasks)].id, status |-> "todo",
                       returned |-> "task"]
    /\ UNCHANGED <<ret, pl, hist, seed, agentVars, toolVars, llm, votes, supportVars>>

\* update_status(task_id, status)
DocUpdateStatus ==
    /\ doc.now < MaxClock
    /\ \E task_id \in DocTaskIds, status \in DocStatuses :
        LET found == {i \in 1..Len(tasks) : tasks[i].id = task_id}
            first == CHOOSE i \in found : \A j \in found : i <= j
        IN  /\ tasks' = UpdateStatusOn(tasks, task_id, status)
            /\ doc' = [completed_at |->
                           IF found = {} THEN doc.completed_at
                           ELSE [doc.completed_at EXCEPT ![first] =
                                    CompletedAtAfter(@, status, doc.now + 1)],
                       now |-> doc.now + 1, op |-> "update_status",
                       task_id |-> task_id, status |-> status,
                       returned |-> IF found = {} THEN "not found"
                                    ELSE "status ->"]
    /\ UNCHANGED <<next_id, ret, pl, hist, seed, agentVars, toolVars, llm, votes, supportVars>>

\* assign_initial_tasks()
DocAssignInitialTasks ==
    /\ doc.now < MaxClock
    /\ LET b == IF BacklogEmpty(tasks)
                THEN SeedFive([tasks |-> tasks, next_id |-> next_id])
                ELSE [tasks |-> tasks, next_id |-> next_id]
       IN  /\ tasks' = b.tasks
           /\ next_id' = b.next_id
           /\ doc' = [completed_at |->
                          doc.completed_at \o
                              [i \in 1..(Len(b.tasks) - Len(tasks)) |-> 0],
                      now |-> doc.now + 1, op |-> "assign_initial_tasks",
                      task_id |-> 0, status |-> "", returned |-> "None"]
    /\ UNCHANGED <<ret, pl, hist, seed, agentVars, toolVars, llm, votes, supportVars>>

InitDoc ==
    /\ OrchestratorIdle
    /\ AgentIdle
    /\ ToolIdle
    /\ ServiceIdle
    /\ SupportIdle

NextDoc ==
    \/ DocAddTask
    \/ DocUpdateStatus
    \/ DocAssignInitialTasks

SpecDoc == InitDoc /\ [][NextDoc]_vars

(***************************************************************************)
(* Claims about the backlog document, checked under SpecDoc.               *)
(***************************************************************************)
\* ids are strictly increasing in insertion order and below next_id
C12_IdsIncreasing ==
    /\ \A i \in 1..Len(tasks), j \in 1..Len(tasks) :
          i < j => tasks[i].id < tasks[j].id
    /\ \A i \in 1..Len(tasks) : tasks[i].id < next_id

\* no step removes or renumbers a task; an add_task step appends one task
C12_AddStep ==
    /\ Len(tasks') >= Len(tasks)
    /\ \A i \in 1..Len(tasks) : tasks'[i].id = tasks[i].id
    /\ doc'.op = "add_task" =>
          /\ Len(tasks') = Len(tasks) + 1
          /\ SubSeq(tasks', 1, Len(tasks)) = tasks
          /\ tasks'[Len(tasks')].id = next_id
          /\ tasks'[Len(tasks')].status = "todo"
          /\ doc'.completed_at = Append(doc.completed_at, 0)
          /\ next_id' = next_id + 1

\* C12: add_task appends exactly one task with status todo, completed_at null
\* and id equal to the previous next_id, and increments next_id by one; after
\* any sequence of operations all ids are unique and strictly increasing in
\* insertion order, next_id exceeds every id, and no task is ever removed.
C12_AddTaskAppendsWithNextId ==
    [][C12_AddStep]_vars /\ []C12_IdsIncreasing

\* C12 witness: add_task was called on a backlog that already held the five
\* seed tasks.
C12_Witness ==
    /\ doc.op = "add_task"
    /\ Len(tasks) = 6
    /\ tasks[6].id = 6

\* an update_status step changes the status of the task with that id and its
\* completed_at when the status is done, and nothing else
C13_UpdateStep ==
    doc'.op = "update_status" =>
        LET target == {i \in 1..Len(tasks) : tasks[i].id = doc'.task_id}
        IN  /\ Len(tasks') = Len(tasks)
            /\ Len(doc'.completed_at) = Len(doc.completed_at)
            /\ next_id' = next_id
            /\ \A i \in 1..Len(tasks) :
                  IF i \in target
                  THEN /\ tasks'[i] = [tasks[i] EXCEPT !.status = doc'.status]
                       /\ IF doc'.status = "done"
                          THEN doc'.completed_at[i] = doc'.now
                          ELSE doc'.completed_at[i] = doc.completed_at[i]
                  ELSE /\ tasks'[i] = tasks[i]
                       /\ doc'.completed_at[i] = doc.completed_at[i]
            /\ doc'.returned = IF target = {} THEN "not found" ELSE "status ->"

\* C13: update_status(id, s) accepts every transition and changes only the
\* target task's status, plus completed_at, which is set exactly when s is
\* done; a later update_status(id, todo) leaves completed_at as it was; every
\* other task and field is unchanged; when no task has the id the backlog is
\* unchanged and a "not found" string is returned.
C13_UpdateStatusFrame == [][C13_UpdateStep]_vars

\* C13 witness: a task that was done has been set back to todo and still has
\* its completed_at.
C13_Witness ==
    /\ doc.op = "update_status"
    /\ doc.status = "todo"
    /\ \E i \in 1..Len(tasks) :
          /\ tasks[i].id = doc.task_id
          /\ tasks[i].status = "todo"
          /\ doc.completed_at[i] # 0

\* an assign_initial_tasks step seeds five tasks into an empty backlog and
\* leaves any other backlog as it is
C14_AssignStep ==
    doc'.op = "assign_initial_tasks" =>
        IF Len(tasks) = 0
        THEN /\ Len(tasks') = 5
             /\ next_id' = next_id + 5
        ELSE /\ tasks' = tasks
             /\ next_id' = next_id
             /\ doc'.completed_at = doc.completed_at

\* C14: assign_initial_tasks adds the five seed tasks only when the backlog
\* has no task, and adds nothing to a backlog with at least one task; calling
\* it twice gives the same backlog as calling it once.
C14_AssignInitialTasksIdempotent ==
    /\ [][C14_AssignStep]_vars
    /\ [][(doc.op = "assign_initial_tasks" /\ doc'.op = "assign_initial_tasks")
            => (tasks' = tasks /\ next_id' = next_id)]_vars

\* C14 witness: assign_initial_tasks was called on a backlog that held tasks
\* other than the seed tasks.
C14_Witness ==
    /\ doc.op = "assign_initial_tasks"
    /\ Len(tasks) \in 1..4

(***************************************************************************)
(* DeepSeekClient.chat_completion and RateLimiter.wait_if_needed           *)
(* (src/src/utils/llm_client.py). Time is counted in tenths of a second;   *)
(* time.sleep(d) advances the clock by d, everything else takes no time.   *)
(***************************************************************************)
\* number of requests sent to the provider in one run
MaxRequests == 4

\* window = 60.0
window == 600

\* estimated_tokens: int = 1000
estimated_tokens == 1000

\* time.sleep(10) before the retry
retry_sleep == 100

\* the time between the end of one chat_completion call and the next call
CallGaps == {0, 300}

\* the limits a client is configured with
RateLimitCalls == {1, 2}

RateLimitTokens == {3000, 500000}

\* what one request to the provider leads to: a reply with or without a usage
\* record, an exception whose text contains "429", any other exception
ProviderAnswers == {"reply_usage", "reply", "rate_limit", "error"}

\* total tokens of a reply that has a usage record
UsageTokens == 2500

RECURSIVE SumTokens(_)
SumTokens(used) ==
    IF used = <<>> THEN 0 ELSE Head(used).tokens + SumTokens(Tail(used))

\* wait_if_needed, lines 47-74, entered at time now: the limiter after the
\* call and the time at which the call returns
WaitIfNeeded(l, now) ==
    LET calls       == SelectSeq(l.calls, LAMBDA t : now - t < window)
        tokens_used == SelectSeq(l.tokens_used, LAMBDA u : now - u.t < window)
        call_wait   == IF Len(calls) >= l.max_calls
                       THEN calls[1] + window - now + 1
                       ELSE 0
        call_slept  == IF call_wait > 0 THEN call_wait ELSE 0
        token_wait  == IF SumTokens(tokens_used) + estimated_tokens > l.max_tokens
                       THEN IF tokens_used # <<>>
                            THEN tokens_used[1].t + window - now + 1
                            ELSE 10
                       ELSE 0
        token_slept == IF token_wait > 0 THEN token_wait ELSE 0
        waits       == (IF call_wait > 0 THEN 1 ELSE 0)
                           + (IF token_wait > 0 THEN 1 ELSE 0)
        end         == now + call_slept + token_slept
    IN  [l EXCEPT !.calls = Append(calls, end),
                  !.tokens_used = tokens_used,
                  !.total_waits = @ + waits,
                  !.time = end,
                  !.admitted_log = Append(@, end),
                  !.last_wait = [arrived |-> now, admitted |-> end, waits |-> waits]]

\* lines 147-188 after model selection: the rate limiter, one request, and
\* what the answer leads to; the rate-limit handler sleeps and calls
\* chat_completion again
Attempt(l, now, answer) ==
    LET w == [WaitIfNeeded(l, now) EXCEPT !.requests = @ + 1,
                                          !.total_requests = @ + 1]
    IN  CASE answer = "reply_usage" ->
                [w EXCEPT !.tokens_used =
                              Append(@, [t |-> w.time, tokens |-> UsageTokens]),
                          !.pc = "idle", !.returned = "content"]
          [] answer = "reply" ->
                [w EXCEPT !.pc = "idle", !.returned = "content"]
          [] answer = "rate_limit" ->
                [w EXCEPT !.time = @ + retry_sleep, !.pc = "retry",
                          !.returned = "none"]
          [] OTHER ->
                [w EXCEPT !.pc = "idle",
                          !.returned = "Error communicating with AI"]

\* chat_completion(messages) called by an agent
ChatCompletion ==
    /\ llm.pc = "idle"
    /\ llm.total_requests < MaxRequests
    /\ \E gap \in CallGaps, answer \in ProviderAnswers :
          llm' = Attempt([llm EXCEPT !.requests = 0], llm.time + gap, answer)
    /\ UNCHANGED <<orchestratorVars, agentVars, toolVars, doc, votes, supportVars>>

\* line 187: return self.chat_completion(messages, temperature, model_override)
ChatCompletionAgain ==
    /\ llm.pc = "retry"
    /\ llm.total_requests < MaxRequests
    /\ \E answer \in ProviderAnswers :
          llm' = Attempt(llm, llm.time, answer)
    /\ UNCHANGED <<orchestratorVars, agentVars, toolVars, doc, votes, supportVars>>

InitLlm ==
    /\ OrchestratorIdle
    /\ AgentIdle
    /\ ToolIdle
    /\ doc = NoDoc
    /\ votes = NoVotes
    /\ SupportIdle
    /\ \E c \in RateLimitCalls, tk \in RateLimitTokens : llm = NewClient(c, tk)

NextLlm ==
    \/ ChatCompletion
    \/ ChatCompletionAgain

SpecLlm == InitLlm /\ [][NextLlm]_vars

(***************************************************************************)
(* Claims about the LLM client, checked under SpecLlm.                     *)
(***************************************************************************)
\* C17 (as claimed): on a rate-limit error chat_completion sleeps 10 seconds
\* and retries once: one chat_completion call makes at most two requests to
\* the provider, also when every request is answered with a rate-limit error.
C17_AtMostTwoRequests == llm.requests <= 2

\* the calls admitted in the 60 seconds before time t
C18_AdmittedBefore(t) ==
    {k \in 1..(Len(llm.admitted_log) - 1) : t - llm.admitted_log[k] < 600}

\* C18 (as claimed): wait_if_needed admits a call without waiting only when
\* fewer than max_calls calls were admitted in the preceding 60 seconds; a
\* call that arrives while the window is full is delayed until the oldest
\* call of the window is 60 seconds old (plus the 0.1 s margin), and
\* total_waits grows by exactly one for that call.
C18_WaitsOnceUntilOldestExpires ==
    llm.admitted_log # <<>> =>
        LET w      == llm.last_wait
            before == C18_AdmittedBefore(w.arrived)
            oldest == CHOOSE k \in before : \A m \in before : k <= m
        IN  /\ w.admitted = w.arrived => Cardinality(before) < llm.max_calls
            /\ Cardinality(before) >= llm.max_calls =>
                  /\ w.admitted = llm.admitted_log[oldest] + 600 + 1
                  /\ w.waits = 1

(***************************************************************************)
(* VotingSystem (src/src/utils/voting.py). A proposal's votes map each     *)
(* registered voter to its decision, "none" for a voter who has not voted. *)
(***************************************************************************)
\* number of proposals created in one run
MaxProposals == 1

\* the calls of propose: the one of _run_voting_phase, where the quant
\* analyst proposes to the three others, and one by a proposer who is one of
\* two voters
ProposeCalls ==
    {[proposer |-> "quant_analyst",
      voters |-> <<"data_scientist", "engineer", "devops">>],
     [proposer |-> "engineer", voters |-> <<"data_scientist", "engineer">>]}

\* the agents that call vote
VoteCallers == {"data_scientist", "engineer", "devops"}

\* the decision strings vote is called with
VoteDecisions == {"approve", "reject", "abstain", "maybe"}

\* lines 100-104: the votes of proposal p with decision d
CountVotes(p, d) ==
    Cardinality({i \in 1..Len(p.voters) : p.votes[p.voters[i]] = d})

\* a count that takes every registered voter to have voted
VotesCast_AllVoters(p) == Len(p.voters)

\* len(proposal["votes"])
VotesCast(p) ==
    Cardinality({i \in 1..Len(p.voters) : p.votes[p.voters[i]] # "none"})

\* a tally that takes the majority of the votes cast
TallyProposal_OfVotesCast(p) ==
    LET approvals  == CountVotes(p, "approve")
        rejections == CountVotes(p, "reject")
    IN  IF 2 * approvals > VotesCast(p)
        THEN [p EXCEPT !.status = "passed", !.result = "APPROVED"]
        ELSE IF 2 * rejections > VotesCast(p)
        THEN [p EXCEPT !.status = "rejected", !.result = "REJECTED"]
        ELSE [p EXCEPT !.result = "Pending"]

\* a tally whose tie-break rejects a tie
TallyProposal_TieRejects(p) ==
    LET approvals    == CountVotes(p, "approve")
        rejections   == CountVotes(p, "reject")
        total_voters == Len(p.voters)
    IN  IF 2 * approvals > total_voters
        THEN [p EXCEPT !.status = "passed", !.result = "APPROVED"]
        ELSE IF 2 * rejections > total_voters
        THEN [p EXCEPT !.status = "rejected", !.result = "REJECTED"]
        ELSE IF VotesCast(p) >= total_voters
        THEN IF approvals > rejections
             THEN [p EXCEPT !.status = "passed", !.result = "APPROVED (tie-break)"]
             ELSE [p EXCEPT !.status = "rejected", !.result = "REJECTED (tie-break)"]
        ELSE [p EXCEPT !.result = "Pending"]

\* tally, lines 100-125, on proposal p: threshold = total_voters / 2
TallyProposal(p) ==
    LET approvals    == CountVotes(p, "approve")
        rejections   == CountVotes(p, "reject")
        total_voters == Len(p.voters)
    IN  IF 2 * approvals > total_voters
        THEN [p EXCEPT !.status = "passed", !.result = "APPROVED"]
        ELSE IF 2 * rejections > total_voters
        THEN [p EXCEPT !.status = "rejected", !.result = "REJECTED"]
        ELSE IF VotesCast(p) >= total_voters
        THEN IF approvals >= rejections
             THEN [p EXCEPT !.status = "passed", !.result = "APPROVED (tie-break)"]
             ELSE [p EXCEPT !.status = "rejected", !.result = "REJECTED (tie-break)"]
        ELSE [p EXCEPT !.result = "Pending"]

\* lines 125-127: the number of remaining voters in the string tally returns
\* for proposal p as tally left it, 0 when the string has no such number
RemainingIn(p) ==
    IF p.result = "Pending" THEN Len(p.voters) - VotesCast(p) ELSE 0

\* the calls of vote: every caller with every decision on a proposal id that
\* was given out, one call with an invalid decision and one with an id that
\* was never given out
VoteCalls ==
    [proposal_id : 1..MaxProposals, agent_name : VoteCallers,
     decision : VoteDecisions \ {"maybe"}]
    \cup {[proposal_id |-> 1, agent_name |-> "engineer", decision |-> "maybe"],
          [proposal_id |-> MaxProposals + 1, agent_name |-> "engineer",
           decision |-> "approve"]}

\* propose(title, description, proposer, voters)
VotePropose ==
    /\ Len(votes.proposals) < MaxProposals
    /\ \E call \in ProposeCalls :
          votes' = [proposals |->
                        Append(votes.proposals,
                               [id |-> votes.next_id, proposer |-> call.proposer,
                                voters |-> call.voters,
                                votes |-> [i \in {call.voters[k] :
                                                     k \in 1..Len(call.voters)}
                                              |-> "none"],
                                status |-> "open", result |-> "None"]),
                    next_id |-> votes.next_id + 1,
                    returned |-> "proposal", remaining |-> 0, tallied |-> 0,
                    named |-> 0]
    /\ UNCHANGED <<orchestratorVars, agentVars, toolVars, doc, llm, supportVars>>

\* a lookup that finds the proposal whatever its status
OpenProposals_AnyStatus(ps, proposal_id) ==
    {i \in 1..Len(ps) : ps[i].id = proposal_id}

\* line 73: the proposals vote looks at
OpenProposals(ps, proposal_id) ==
    {i \in 1..Len(ps) : ps[i].id = proposal_id /\ ps[i].status = "open"}

\* vote(proposal_id, agent_name, decision), with the tally it makes when the
\* last vote comes in
VoteCastResult(call) ==
    LET open == OpenProposals(votes.proposals, call.proposal_id)
        i    == CHOOSE k \in open : \A m \in open : k <= m
        p    == votes.proposals[i]
        q    == [p EXCEPT !.votes[call.agent_name] = call.decision]
        said(message, id) ==
            [votes EXCEPT !.returned = message, !.remaining = 0,
                          !.tallied = 0, !.named = id]
    IN  IF call.decision \notin {"approve", "reject", "abstain"}
        THEN said("Invalid decision", 0)
        ELSE IF open = {}
        THEN said("not found or already closed", call.proposal_id)
        ELSE IF call.agent_name \notin DOMAIN p.votes
        THEN said("is not a voter", 0)
        ELSE IF VotesCast(q) >= Len(q.voters)
        THEN [votes EXCEPT !.proposals[i] = TallyProposal(q),
                           !.returned = TallyProposal(q).result,
                           !.remaining = RemainingIn(TallyProposal(q)),
                           !.tallied = call.proposal_id,
                           !.named = 0]
        ELSE [said("Vote recorded", 0) EXCEPT !.proposals[i] = q]

VoteCast ==
    /\ \E call \in VoteCalls : votes' = VoteCastResult(call)
    /\ UNCHANGED <<orchestratorVars, agentVars, toolVars, doc, llm, supportVars>>

\* tally(proposal_id)
VoteTally ==
    /\ \E proposal_id \in 1..(MaxProposals + 1) :
          LET found == {i \in 1..Len(votes.proposals) :
                           votes.proposals[i].id = proposal_id}
              i     == CHOOSE k \in found : \A m \in found : k <= m
          IN  IF found = {}
              THEN votes' = [votes EXCEPT !.returned = "not found", !.remaining = 0,
                                          !.tallied = 0, !.named = proposal_id]
              ELSE votes' = [votes EXCEPT
                                !.proposals[i] = TallyProposal(@),
                                !.returned = TallyProposal(votes.proposals[i]).result,
                                !.remaining =
                                    RemainingIn(TallyProposal(votes.proposals[i])),
                                !.tallied = proposal_id,
                                !.named = 0]
    /\ UNCHANGED <<orchestratorVars, agentVars, toolVars, doc, llm, supportVars>>

InitVote ==
    /\ OrchestratorIdle
    /\ AgentIdle
    /\ ToolIdle
    /\ ServiceIdle
    /\ SupportIdle

NextVote ==
    \/ VotePropose
    \/ VoteCast
    \/ VoteTally

SpecVote == InitVote /\ [][NextVote]_vars

\* the proposal the last call tallied, as tally left it
C19_Tallied ==
    votes.proposals[CHOOSE i \in 1..Len(votes.proposals) :
                        votes.proposals[i].id = votes.tallied]

\* approvals > |voters| / 2, resp. rejections > |voters| / 2
C19_ApprovedByMajority(p) == 2 * CountVotes(p, "approve") > Len(p.voters)
C19_RejectedByMajority(p) == 2 * CountVotes(p, "reject") > Len(p.voters)

\* every registered voter has voted and neither side has a majority of the
\* voter list
C19_NoMajorityAllVoted(p) ==
    /\ VotesCast(p) >= Len(p.voters)
    /\ ~C19_ApprovedByMajority(p)
    /\ ~C19_RejectedByMajority(p)

C20_PendingKeepsOpen ==
    /\ votes.tallied # 0
    /\ VotesCast(C19_Tallied) < Len(C19_Tallied.voters)
    /\ ~C19_ApprovedByMajority(C19_Tallied)
    /\ ~C19_RejectedByMajority(C19_Tallied)
    => /\ votes.returned = "Pending"
       /\ C19_Tallied.result = "Pending"
       /\ votes.remaining = Len(C19_Tallied.voters) - VotesCast(C19_Tallied)
       /\ C19_Tallied.status = "open"

\* three voters, one approval, one rejection, one vote missing: one remaining
C20_Witness ==
    /\ votes.tallied # 0
    /\ Len(C19_Tallied.voters) = 3
    /\ CountVotes(C19_Tallied, "approve") = 1
    /\ CountVotes(C19_Tallied, "reject") = 1
    /\ VotesCast(C19_Tallied) = 2
    /\ votes.returned = "Pending"
    /\ votes.remaining = 1
    /\ C19_Tallied.status = "open"

\* C21: a proposal in which some registered voter has not voted and neither
\* the approvals nor the rejections exceed half of the voter list is open,
\* whatever calls of vote and tally were made: as long as the voter stays
\* away and no majority forms, it is never closed.
C21_MissingVoterKeepsOpen ==
    \A i \in 1..Len(votes.proposals) :
        LET p == votes.proposals[i]
        IN  /\ \E k \in 1..Len(p.voters) : p.votes[p.voters[k]] = "none"
            /\ ~C19_ApprovedByMajority(p)
            /\ ~C19_RejectedByMajority(p)
            => p.status = "open"

\* devops never voted, the two others did without making a majority, and the
\* proposal was tallied and is open
C21_Witness ==
    /\ votes.tallied # 0
    /\ Len(C19_Tallied.voters) = 3
    /\ C19_Tallied.votes["devops"] = "none"
    /\ C19_Tallied.votes["data_scientist"] = "abstain"
    /\ C19_Tallied.votes["engineer"] = "reject"
    /\ C19_Tallied.result = "Pending"
    /\ C19_Tallied.status = "open"

\* proposal i is closed
C36_Closed(i) == votes.proposals[i].status \in {"passed", "rejected"}

\* the proposal with this id is closed
C36_ClosedId(proposal_id) ==
    \E i \in 1..Len(votes.proposals) :
        votes.proposals[i].id = proposal_id /\ C36_Closed(i)

\* a closed proposal keeps its status, its verdict and its votes
C36_ClosedIsKept ==
    \A i \in 1..Len(votes.proposals) :
        C36_Closed(i) =>
            /\ votes'.proposals[i].status = votes.proposals[i].status
            /\ votes'.proposals[i].result = votes.proposals[i].result
            /\ votes'.proposals[i].votes = votes.proposals[i].votes

\* a vote on a closed proposal is refused
C36_VoteRefused ==
    \A call \in VoteCalls :
        /\ call.decision \in {"approve", "reject", "abstain"}
        /\ C36_ClosedId(call.proposal_id)
        /\ votes' = VoteCastResult(call)
        => /\ votes'.returned = "not found or already closed"
           /\ votes'.named = call.proposal_id

\* the voter list of the proposal with this id
C36_VotersOf(proposal_id) ==
    UNION {DOMAIN votes.proposals[i].votes :
              i \in {k \in 1..Len(votes.proposals) :
                         votes.proposals[k].id = proposal_id}}

\* a vote with an invalid decision or by a non-voter changes no proposal
C36_BadVoteChangesNothing ==
    \A call \in VoteCalls :
        /\ \/ call.decision \notin {"approve", "reject", "abstain"}
           \/ call.agent_name \notin C36_VotersOf(call.proposal_id)
        /\ votes' = VoteCastResult(call)
        => votes'.proposals = votes.proposals

\* C36: a proposal whose status is passed or rejected is final: a later vote
\* on it is refused and leaves its votes unchanged, a later tally leaves its
\* status and verdict unchanged; a vote with a decision outside approve,
\* reject, abstain or by an agent outside the voter list changes no proposal.
C36_ClosedIsFinal ==
    [][C36_ClosedIsKept /\ C36_VoteRefused /\ C36_BadVoteChangesNothing]_vars

\* C36 witness: two of three voters approved, the proposal passed with
\* devops not having voted, and a later vote on it was refused
C36_Witness ==
    /\ Len(votes.proposals) = 1
    /\ votes.proposals[1].status = "passed"
    /\ votes.proposals[1].result = "APPROVED"
    /\ Len(votes.proposals[1].voters) = 3
    /\ votes.proposals[1].votes["devops"] = "none"
    /\ votes.returned = "not found or already closed"
    /\ votes.named = 1

(***************************************************************************)
(* ProjectManager._escalate_failure, called on its own.  The PM reply is a *)
(* string of characters; self.agents holds the agents that were started.   *)
(***************************************************************************)
\* the replies pm_think gives to the question SKIP, REASSIGN or SPLIT
PmReplies ==
    { <<"s", "k", "i", "p">>,
      <<"R", "e", "a", "s", "s", "i", "g", "n">>,
      <<"s", "p", "l", "i", "t", " ", "i", "t">>,
      <<"S", "K", "I", "P", " ", "o", "r", " ", "S", "P", "L", "I", "T">>,
      <<"b", "o", " ", "q", "u", "a">>,
      <<"E", "r", "r", "o", "r", ":", " ", "x">> }

\* lines 732: the keywords in the order they are looked for
EscalationKeywords ==
    << <<"R", "E", "A", "S", "S", "I", "G", "N">>,
       <<"S", "P", "L", "I", "T">>,
       <<"S", "K", "I", "P">> >>

\* str.upper, one character
UpperChar(c) ==
    IF \E i \in 1..Len(Lowercase) : Lowercase[i] = c
    THEN Uppercase[CHOOSE i \in 1..Len(Lowercase) : Lowercase[i] = c]
    ELSE c

\* pm_decision.upper()
Upper(s) == [i \in 1..Len(s) |-> UpperChar(s[i])]

\* the text of a keyword
KeywordName(k) == CASE k = 1 -> "REASSIGN" [] k = 2 -> "SPLIT" [] OTHER -> "SKIP"

\* a decision that looks for SKIP before the two other keywords
PmDecision_SkipFirst(pm_decision) ==
    IF Contains(Upper(pm_decision), EscalationKeywords[3]) THEN "SKIP"
    ELSE IF Contains(Upper(pm_decision), EscalationKeywords[1]) THEN "REASSIGN"
    ELSE IF Contains(Upper(pm_decision), EscalationKeywords[2]) THEN "SPLIT"
    ELSE "SKIP"

\* lines 731-735: decision = "SKIP", then the first keyword of the list that
\* occurs in the upper-cased reply
PmDecision(pm_decision) ==
    LET found == {k \in 1..Len(EscalationKeywords) :
                     Contains(Upper(pm_decision), EscalationKeywords[k])}
    IN  IF found = {} THEN "SKIP"
        ELSE KeywordName(CHOOSE k \in found : \A m \in found : k <= m)

\* the decision for each reply
PmDecisions == [r \in PmReplies |-> PmDecision(r)]

\* the sets self.agents can be after start_all_agents: start_agent leaves out
\* an agent whose construction or initialize raised
StartedAgents == SUBSET AgentSet \ {{}}

\* _escalate_failure(agent, agent_name, task, backlog, result) for a task that
\* _execute_agent_task has put in progress
EscalateCall ==
    /\ \E i \in 1..Len(tasks), agents \in StartedAgents, pm_decision \in PmReplies,
          n_sub \in 0..3 :
          /\ tasks[i].status = "in_progress"
          /\ tasks[i].assigned_to \in agents
          /\ \E new_agent \in IF agents \ {tasks[i].assigned_to} = {}
                              THEN {tasks[i].assigned_to}
                              ELSE agents \ {tasks[i].assigned_to} :
                LET b == EscalateFailureAmong(agents, [tasks |-> tasks, next_id |-> next_id],
                             tasks[i].id, tasks[i].assigned_to,
                             PmDecisions[pm_decision], new_agent, n_sub)
                IN  /\ tasks' = b.tasks
                    /\ next_id' = b.next_id
                    /\ esc' = [called |-> TRUE, agents |-> agents,
                               agent_name |-> tasks[i].assigned_to,
                               task_id |-> tasks[i].id,
                               pm_decision |-> pm_decision,
                               decision |-> PmDecisions[pm_decision],
                               added |-> SubSeq(b.tasks, Len(tasks) + 1, Len(b.tasks))]
    /\ UNCHANGED <<ret, pl, hist, seed, agentVars, toolVars, serviceVars, allButEsc>>

\* the backlog when a failure is escalated: the tasks of a pipeline run, the
\* failed one in progress (tasks are executed one at a time)
InitEscalate ==
    /\ \E n \in 1..MaxSeedTasks : tasks \in SeedBacklogs(n)
    /\ Cardinality({i \in 1..Len(tasks) : tasks[i].status = "in_progress"}) = 1
    /\ next_id = Len(tasks) + 1
    /\ ret = NoRet
    /\ pl = PipelineIdle
    /\ hist = NoHist
    /\ seed = tasks
    /\ AgentIdle
    /\ ToolIdle
    /\ ServiceIdle
    /\ SupportIdle

NextEscalate == EscalateCall

SpecEscalate == InitEscalate /\ [][NextEscalate]_vars

(***************************************************************************)
(* Claims about _escalate_failure, checked under SpecEscalate.             *)
(***************************************************************************)
\* the reply of the last call, upper-cased, contains keyword k
C22_Mentions(k) == Contains(Upper(esc.pm_decision), EscalationKeywords[k])

\* the decision is SKIP unless a keyword occurs, and then the first of
\* REASSIGN, SPLIT, SKIP that occurs
C22_DecisionRule ==
    esc.decision = IF C22_Mentions(1) THEN "REASSIGN"
                   ELSE IF C22_Mentions(2) THEN "SPLIT"
                   ELSE "SKIP"

\* the failed task is blocked
C22_FailedTaskBlocked ==
    \A i \in 1..Len(tasks) : tasks[i].id = esc.task_id => tasks[i].status = "blocked"

\* every added task is a high-priority todo task
C22_AddedHighTodo ==
    \A k \in 1..Len(esc.added) :
        esc.added[k].priority = "high" /\ esc.added[k].status = "todo"

\* SPLIT added at most two tasks, for the failing agent
C22_SplitRule ==
    esc.decision = "SPLIT" =>
        /\ Len(esc.added) <= 2
        /\ \A k \in 1..Len(esc.added) : esc.added[k].assigned_to = esc.agent_name

\* C22 as stated: the decision follows the keyword rule, the failed task ends
\* blocked in every branch, REASSIGN adds one high-priority todo task for an
\* agent other than the failing one, SPLIT adds at most two high-priority
\* todo tasks for the failing agent.
C22_ReassignAlwaysAddsOne ==
    esc.called =>
        /\ C22_DecisionRule
        /\ C22_FailedTaskBlocked
        /\ C22_AddedHighTodo
        /\ C22_SplitRule
        /\ esc.decision = "REASSIGN" =>
              /\ Len(esc.added) = 1
              /\ esc.added[1].assigned_to # esc.agent_name

\* C22: the decision follows the keyword rule (SKIP unless a keyword occurs
\* in the upper-cased reply, else the first of REASSIGN, SPLIT, SKIP that
\* occurs); the failed task ends blocked in every branch; SKIP adds no task;
\* REASSIGN adds one high-priority todo task for another started agent when
\* there is one and no task when the failing agent is the only one started;
\* SPLIT adds at most two high-priority todo tasks for the failing agent.
C22_ReassignAddsOneIfOtherAgent ==
    esc.called =>
        /\ C22_DecisionRule
        /\ C22_FailedTaskBlocked
        /\ C22_AddedHighTodo
        /\ C22_SplitRule
        /\ esc.decision = "SKIP" => esc.added = <<>>
        /\ esc.decision = "REASSIGN" =>
              IF esc.agents \ {esc.agent_name} = {}
              THEN esc.added = <<>>
              ELSE /\ Len(esc.added) = 1
                   /\ esc.added[1].assigned_to \in esc.agents \ {esc.agent_name}

\* the reply names SKIP before SPLIT, the decision was SPLIT and two subtasks
\* were added
C22_Witness ==
    /\ esc.called
    /\ C22_Mentions(2)
    /\ C22_Mentions(3)
    /\ esc.decision = "SPLIT"
    /\ Len(esc.added) = 2
    /\ C22_FailedTaskBlocked

(***************************************************************************)
(* main (src/scripts/start_agents.py) with AutoRecovery's checkpoint and   *)
(* ProjectManager.shutdown.  The cycle loop is followed phase by phase;    *)
(* any await or call of a phase can raise.                                 *)
(***************************************************************************)
\* cycles of one run (pipeline.max_cycles of the configuration)
MaxCycles == 2

\* the phases of a cycle, in order; the checkpoint's phase is set at the
\* start of those that call recovery.set_phase (the others are "")
CyclePhases ==
    <<"pipeline", "code_review", "voting", "planning", "", "", "", "", "cooldown", "">>

\* what can escape the try block of main
RaisedKinds == {"Exception", "KeyboardInterrupt"}

\* a record_crash that counts nothing
RecordCrash_NotCounted(state) ==
    [state EXCEPT !.last_crash = [phase |-> state.phase, cycle |-> state.cycle,
                                  set |-> TRUE]]

\* AutoRecovery.record_crash, on the checkpoint state
RecordCrash(state) ==
    [state EXCEPT !.crash_count = state.crash_count + 1,
                  !.last_crash = [phase |-> state.phase, cycle |-> state.cycle,
                                  set |-> TRUE]]

\* lines 1307-1319: the handlers of main's try block, for what was raised
\* (recovery is self.recovery being set)
HandleRaised(kind, recovery, state) ==
    IF kind = "Exception" /\ recovery THEN RecordCrash(state) ELSE state

\* a should_resume that takes a cycle in its cooldown as unfinished
ShouldResume_InCooldown(state) ==
    state.phase \notin {"startup", "None"} /\ state.cycle > 0

\* AutoRecovery.should_resume, on the checkpoint state
ShouldResume(state) ==
    state.phase \notin {"startup", "cooldown", "None"} /\ state.cycle > 0

\* start_all_agents: self.agents gets the agents whose start did not raise,
\* in the order of agents_to_start
MainStartAgents ==
    /\ main_run.pc = "startup"
    /\ \E started \in SUBSET AgentSet :
          main_run' = [main_run EXCEPT !.pc = "loop",
                             !.agents = SelectSeq(AgentNames, LAMBDA a : a \in started)]
    /\ UNCHANGED <<orchestratorVars, agentVars, toolVars, serviceVars, allButRun>>

\* lines 1147-1158: top of the cycle loop
MainCycleStart ==
    /\ main_run.pc = "loop"
    /\ IF main_run.cycle + 1 > MaxCycles
       THEN main_run' = [main_run EXCEPT !.cycle = main_run.cycle + 1, !.pc = "finally"]
       ELSE main_run' = [main_run EXCEPT !.cycle = main_run.cycle + 1, !.pc = "phases", !.step = 1,
                       !.state = IF main_run.recovery
                                 THEN [@ EXCEPT !.cycle = main_run.cycle + 1,
                                                !.phase = "pipeline"]
                                 ELSE @]
    /\ UNCHANGED <<orchestratorVars, agentVars, toolVars, serviceVars, allButRun>>

\* one phase of the cycle ran to its end; the next one starts, with
\* recovery.set_phase if it has one
MainPhaseDone ==
    /\ main_run.pc = "phases"
    /\ IF main_run.step = Len(CyclePhases)
       THEN main_run' = [main_run EXCEPT !.pc = "loop", !.step = 0]
       ELSE main_run' = [main_run EXCEPT !.step = main_run.step + 1,
                       !.state = IF main_run.recovery /\ CyclePhases[main_run.step + 1] # ""
                                 THEN [@ EXCEPT !.phase = CyclePhases[main_run.step + 1]]
                                 ELSE @]
    /\ UNCHANGED <<orchestratorVars, agentVars, toolVars, serviceVars, allButRun>>

\* something raises inside the try block and reaches main's handlers
MainRaise ==
    /\ main_run.pc \in {"startup", "loop", "phases"}
    /\ \E kind \in RaisedKinds :
          main_run' = [main_run EXCEPT !.pc = "finally", !.raised = kind,
                             !.state = HandleRaised(kind, main_run.recovery, main_run.state)]
    /\ UNCHANGED <<orchestratorVars, agentVars, toolVars, serviceVars, allButRun>>

\* lines 1320-1332: the finally block reaches project_manager.shutdown()
MainFinally ==
    /\ main_run.pc = "finally"
    /\ main_run' = [main_run EXCEPT !.pc = "shutdown"]
    /\ UNCHANGED <<orchestratorVars, agentVars, toolVars, serviceVars, allButRun>>

\* shutdown, lines 446-452: the next agent of self.agents is shut down; its
\* shutdown returns or raises an Exception, which is logged
MainShutdownAgent ==
    /\ main_run.pc = "shutdown"
    /\ Len(main_run.attempted) < Len(main_run.agents)
    /\ \E raises \in BOOLEAN :
          main_run' = [main_run EXCEPT
                     !.attempted = Append(@, main_run.agents[Len(main_run.attempted) + 1]),
                     !.shutdown_errors = IF raises THEN @ + 1 ELSE @]
    /\ UNCHANGED <<orchestratorVars, agentVars, toolVars, serviceVars, allButRun>>

\* shutdown, line 453, and the end of main
MainShutdownDone ==
    /\ main_run.pc = "shutdown"
    /\ Len(main_run.attempted) = Len(main_run.agents)
    /\ main_run' = [main_run EXCEPT !.pc = "done"]
    /\ UNCHANGED <<orchestratorVars, agentVars, toolVars, serviceVars, allButRun>>

\* main starts: self.recovery is set unless its import failed, and the
\* checkpoint is the initial one or the one a crashed run left
InitMain ==
    /\ OrchestratorIdle
    /\ AgentIdle
    /\ ToolIdle
    /\ ServiceIdle
    /\ SupportIdleBut({"main_run"})
    /\ \E recovery \in BOOLEAN,
          state \in {InitialCheckpoint,
                     RecordCrash([InitialCheckpoint EXCEPT !.cycle = 1,
                                                          !.phase = "voting"])} :
          main_run = [NoRun EXCEPT !.pc = "startup", !.recovery = recovery,
                              !.state = IF recovery THEN state ELSE InitialCheckpoint,
                              !.starts = 1,
                              !.resumed = recovery /\ ShouldResume(state)]

NextMain ==
    \/ MainStartAgents
    \/ MainCycleStart
    \/ MainPhaseDone
    \/ MainRaise
    \/ MainFinally
    \/ MainShutdownAgent
    \/ MainShutdownDone

SpecMain == InitMain /\ [][NextMain]_vars

\* asyncio runs main to its end: every step of main that can be taken is
\* taken
SpecMainFair == SpecMain /\ WF_vars(NextMain)

\* processes started one after the other on the same checkpoint file
MaxStarts == 2

\* the process has ended and main is started again: AutoRecovery loads the
\* checkpoint file the process left, and lines 1113-1114 ask should_resume
MainRestart ==
    /\ main_run.pc = "done"
    /\ main_run.starts < MaxStarts
    /\ main_run' = [NoRun EXCEPT
                       !.pc = "startup",
                       !.recovery = main_run.recovery,
                       !.state = main_run.state,
                       !.starts = main_run.starts + 1,
                       !.resumed = main_run.recovery /\ ShouldResume(main_run.state),
                       !.prev = [set |-> TRUE, cycle |-> main_run.cycle,
                                 step |-> main_run.step,
                                 resumed |-> main_run.resumed]]
    /\ UNCHANGED <<orchestratorVars, agentVars, toolVars, serviceVars, allButRun>>

NextResume ==
    \/ MainStartAgents
    \/ MainCycleStart
    \/ MainPhaseDone
    \/ MainRaise
    \/ MainFinally
    \/ MainShutdownAgent
    \/ MainShutdownDone
    \/ MainRestart

SpecResume == InitMain /\ [][NextResume]_vars

(***************************************************************************)
(* Claims about main, checked under SpecMainFair.                          *)
(***************************************************************************)
\* the step in which an exception other than KeyboardInterrupt is caught
\* adds exactly one to the checkpoint's crash_count and records the
\* checkpoint's phase and cycle
C23_CrashCounted ==
    /\ main_run.pc # "finally"
    /\ main_run'.pc = "finally"
    /\ main_run'.raised = "Exception"
    /\ main_run.recovery
    => /\ main_run'.state.crash_count = main_run.state.crash_count + 1
       /\ main_run'.state.last_crash.set
       /\ main_run'.state.last_crash.phase = main_run.state.phase
       /\ main_run'.state.last_crash.cycle = main_run.state.cycle
       /\ main_run.pc = "phases" => main_run.state.cycle = main_run.cycle

\* the count changes in no other step
C23_OnlyCrashCounts ==
    main_run'.state.crash_count # main_run.state.crash_count =>
        main_run'.raised = "Exception" /\ main_run.raised = "none"

\* at the end of main every started agent's shutdown was attempted, in
\* order, whatever the shutdowns before it did, and no shutdown error was
\* raised again
C23_AllShutDown ==
    main_run.pc = "done" => main_run.attempted = main_run.agents /\ ~main_run.reraised

\* C23: an exception other than KeyboardInterrupt that escapes the cycle
\* loop is caught, adds exactly one to the checkpoint's crash_count with the
\* phase and cycle of that time, and is followed by the shutdown of all
\* agents, which attempts every started agent even after an agent's
\* shutdown raised and never raises such an error again.
C23_CrashRecordedThenShutdown ==
    /\ [][C23_CrashCounted /\ C23_OnlyCrashCounts]_vars
    /\ []C23_AllShutDown
    /\ (main_run.raised = "Exception" ~> main_run.pc = "done")

\* an exception in the second cycle's voting phase was counted, and both
\* agents were shut down although a shutdown raised
C23_Witness ==
    /\ main_run.pc = "done"
    /\ main_run.raised = "Exception"
    /\ main_run.recovery
    /\ main_run.state.crash_count = 2
    /\ main_run.state.last_crash.phase = "voting"
    /\ main_run.state.last_crash.cycle = 2
    /\ Len(main_run.attempted) = 2
    /\ main_run.shutdown_errors >= 1

(***************************************************************************)
(* AgentMemory (src/src/utils/memory.py): facts and failure records.  The  *)
(* n-th failure remembered carries n as its error text, and its task title *)
(* follows a fixed cycle.                                                  *)
(***************************************************************************)
\* remember_failure calls of one agent
MaxFailures == 32

\* line 101: failures[-5:]
ReportCap == 5

FactKeys == {"start_date", "risk_params"}

\* the values remember_fact is called with: _run_backtest stores the output
\* of a script, which can be empty
FactValues == {"", "2024-01-01", "2024-06-30"}

\* the task titles of the failures, as characters
FailureTitles ==
    << <<"F", "i", "x", " ", "A", "P", "I">>,
       <<"a", "p", "i", " ", "t", "e", "s", "t">>,
       <<"P", "l", "o", "t">> >>

\* the keywords get_failure_history is called with; <<>> is None
FailureKeywords ==
    { <<>>,
      <<"A", "P", "I">>,
      <<"p", "l", "o", "t">>,
      <<"z", "z", "z">> }

\* line 95: keyword.lower() in f.get("task", "").lower(), for each keyword
\* and each title
TitleMatches ==
    [keyword \in FailureKeywords |->
        [t \in 1..Len(FailureTitles) |->
            Contains(Lower(FailureTitles[t]), Lower(keyword))]]

\* the title of the n-th failure
TitleOf(n) == (n % Len(FailureTitles)) + 1

\* lines 58-61: "if value:" takes the stored value when it is not empty
RecallFact(facts, key) ==
    LET value == facts[key]
    IN  IF value.set /\ value.value # ""
        THEN [kind |-> "Recalled", value |-> value.value, reported |-> <<>>]
        ELSE [kind |-> "I don't remember", value |-> "", reported |-> <<>>]

\* lines 90-106: the records the returned text lists, none for ""
GetFailureHistory(fs, keyword) ==
    LET relevant == IF keyword # <<>>
                    THEN SelectSeq(fs, LAMBDA f : TitleMatches[keyword][f.task])
                    ELSE fs
    IN  IF fs = <<>> \/ relevant = <<>>
        THEN [kind |-> "", value |-> "", reported |-> <<>>]
        ELSE [kind |-> "PAST FAILURES", value |-> "",
              reported |-> LastN(relevant, ReportCap)]

\* remember_fact(key, value)
MemRememberFact ==
    /\ \E key \in FactKeys, value \in FactValues :
          mem' = [mem EXCEPT !.facts[key] = [set |-> TRUE, value |-> value],
                             !.written[key] = [set |-> TRUE, value |-> value],
                             !.op = "remember_fact", !.key = key, !.keyword = <<>>,
                             !.returned = [kind |-> "Fact stored", value |-> value,
                                           reported |-> <<>>]]
    /\ UNCHANGED <<orchestratorVars, agentVars, toolVars, serviceVars, allButMem>>

\* recall_fact(key)
MemRecallFact ==
    /\ \E key \in FactKeys :
          mem' = [mem EXCEPT !.op = "recall_fact", !.key = key, !.keyword = <<>>,
                             !.returned = RecallFact(mem.facts, key)]
    /\ UNCHANGED <<orchestratorVars, agentVars, toolVars, serviceVars, allButMem>>

\* remember_failure(task_title, error, round_failed)
MemRememberFailure ==
    /\ mem.remembered < MaxFailures
    /\ failures' = RememberFailure(failures, TitleOf(mem.remembered + 1),
                                   mem.remembered + 1, 3)
    /\ mem' = [mem EXCEPT !.remembered = @ + 1, !.op = "remember_failure",
                          !.key = "", !.keyword = <<>>,
                          !.returned = [kind |-> "none", value |-> "",
                                        reported |-> <<>>]]
    /\ UNCHANGED <<orchestratorVars, thought, act_out, rt, last, toolVars,
                   serviceVars, allButMem>>

\* get_failure_history(keyword)
MemGetFailureHistory ==
    /\ \E keyword \in FailureKeywords :
          mem' = [mem EXCEPT !.op = "get_failure_history", !.key = "",
                             !.keyword = keyword,
                             !.returned = GetFailureHistory(failures, keyword)]
    /\ UNCHANGED <<orchestratorVars, agentVars, toolVars, serviceVars, allButMem>>

InitMemory ==
    /\ OrchestratorIdle
    /\ AgentIdle
    /\ ToolIdle
    /\ ServiceIdle
    /\ SupportIdle

NextMemory ==
    \/ MemRememberFact
    \/ MemRecallFact
    \/ MemRememberFailure
    \/ MemGetFailureHistory

SpecMemory == InitMemory /\ [][NextMemory]_vars

(***************************************************************************)
(* Claims about AgentMemory, checked under SpecMemory.                     *)
(***************************************************************************)
\* the number of records the list must hold after mem.remembered calls
C24_Kept == IF mem.remembered <= 30 THEN mem.remembered ELSE 30

\* the list holds the most recently remembered failures, in the order they
\* were remembered, and at most 30 of them
C24_LastThirtyInOrder ==
    /\ Len(failures) = C24_Kept
    /\ \A i \in 1..Len(failures) :
           failures[i].error = mem.remembered - Len(failures) + i

\* the positions of the stored failures whose title matches the keyword of
\* the last call
C24_Matching ==
    {i \in 1..Len(failures) :
        mem.keyword = <<>> \/ TitleMatches[mem.keyword][failures[i].task]}

\* the history is "" exactly when no stored failure matches, and otherwise
\* lists the most recent matching failures, five at most, in order
C24_ReportsLastFive ==
    mem.op = "get_failure_history" =>
        LET r == mem.returned.reported
        IN  /\ (mem.returned.kind = "") <=> (C24_Matching = {})
            /\ Len(r) <= 5
            /\ Len(r) = IF Cardinality(C24_Matching) <= 5
                        THEN Cardinality(C24_Matching) ELSE 5
            /\ \A k \in 1..Len(r) :
                  \E i \in C24_Matching :
                     /\ r[k] = failures[i]
                     /\ Cardinality({j \in C24_Matching : j > i}) = Len(r) - k

\* C24: after any sequence of remember_failure calls the failure list holds
\* at most 30 records, exactly the most recently remembered ones in
\* insertion order; get_failure_history(keyword) returns the empty string
\* when no stored failure's task contains the keyword and otherwise reports
\* at most the 5 most recent matching records.
C24_CappedAtThirtyAndFiveReported ==
    C24_LastThirtyInOrder /\ C24_ReportsLastFive

\* more than 30 failures were remembered, the oldest are gone, and a keyword
\* that matches more than five of them was asked for
C24_Witness ==
    /\ mem.remembered = 32
    /\ Len(failures) = 30
    /\ failures[1].error = 3
    /\ mem.op = "get_failure_history"
    /\ mem.keyword # <<>>
    /\ Cardinality(C24_Matching) > 5
    /\ Len(mem.returned.reported) = 5
    /\ mem.returned.reported[5].error >= 31

MaxShares == 1

\* every agent and the PM create a handle (base_agent.py:76-78,
\* start_agents.py:179)
ShmWriters == AgentSet \cup {"project_manager"}

ShmSections == {"insights", "patterns", "strategies", "warnings"}

\* the handle, and so the lock, a writer uses
HandleOf(x) == IF shm.own_handles THEN x ELSE "shared"

\* "with self.lock:" is entered by share_insight (section insights),
\* share_pattern, share_strategy_result or add_warning
ShmEnter ==
    \E x \in ShmWriters, section \in ShmSections :
        /\ shm.w[x].pc = "idle"
        /\ shm.w[x].n < MaxShares
        /\ HandleOf(x) \notin shm.held
        /\ shm' = [shm EXCEPT !.held = @ \cup {HandleOf(x)},
                              !.w[x].pc = "locked", !.w[x].section = section]
        /\ UNCHANGED <<orchestratorVars, agentVars, toolVars, serviceVars, allButShm>>

\* data = self._load()
ShmLoad ==
    \E x \in ShmWriters :
        /\ shm.w[x].pc = "locked"
        /\ shm' = [shm EXCEPT !.w[x].pc = "loaded", !.w[x].data = shm.doc]
        /\ UNCHANGED <<orchestratorVars, agentVars, toolVars, serviceVars, allButShm>>

\* the update is made in data, self._save(data), the lock is released and
\* the call returns
ShmSave ==
    \E x \in ShmWriters :
        LET update == <<shm.w[x].section, x, shm.w[x].n + 1>>
        IN  /\ shm.w[x].pc = "loaded"
            /\ shm' = [shm EXCEPT !.doc = shm.w[x].data \cup {update},
                                  !.returned = @ \cup {update},
                                  !.held = @ \ {HandleOf(x)},
                                  !.w[x] = [pc |-> "idle", section |-> "", data |-> {},
                                            n |-> @.n + 1]]
            /\ UNCHANGED <<orchestratorVars, agentVars, toolVars, serviceVars, allButShm>>

InitShared ==
    /\ OrchestratorIdle
    /\ AgentIdle
    /\ ToolIdle
    /\ ServiceIdle
    /\ SupportIdleBut({"shm"})
    /\ \E own \in BOOLEAN : shm = [NoSharedMemory EXCEPT !.own_handles = own]

NextShared ==
    \/ ShmEnter
    \/ ShmLoad
    \/ ShmSave

SpecShared == InitShared /\ [][NextShared]_vars

\* C30: with writers on different handles of the same file running
\* share_insight, share_pattern, share_strategy_result and add_warning
\* concurrently, every update whose call returned is in the document: no
\* interleaving of load, mutate and save loses an update.
C30_NoUpdateLost == shm.returned \subseteq shm.doc

(***************************************************************************)
(* The orchestrator's event loop (start_agents.py:1140-1188): the pipeline *)
(* coroutine and the monitor task.  A coroutine runs until it awaits; then *)
(* the loop resumes a coroutine.  add_task and update_status                *)
(* (backlog_manager.py:37-56, 79-89) are _load, a change of the loaded     *)
(* document and _save; an update is named by its operation and its number *)
(* and the file is the set of the updates in it.                           *)
(***************************************************************************)
\* number of add_task / update_status calls of the pipeline coroutine
MaxBacklogOps == 3

\* a coroutine that could be suspended at any statement
Suspendable_Anywhere(pc) == TRUE

\* the pipeline coroutine awaits (execute_with_retry, asyncio.sleep, think)
\* only between BacklogManager calls: these are plain functions without await
Suspendable(pc) == pc = "ready"

\* the loop resumes a coroutine whose await is over
LoopResume ==
    /\ bio.running = "none"
    /\ \E c \in {"pipeline", "monitor"} : bio' = [bio EXCEPT !.running = c]
    /\ UNCHANGED <<orchestratorVars, agentVars, toolVars, serviceVars, allButBio>>

\* data = self._load() of add_task or update_status
BacklogLoad ==
    /\ bio.running = "pipeline"
    /\ bio.pipeline.pc = "ready"
    /\ bio.pipeline.n < MaxBacklogOps
    /\ \E op \in {"add_task", "update_status"} :
          bio' = [bio EXCEPT !.pipeline.pc = "loaded", !.pipeline.op = op,
                             !.pipeline.data = bio.file]
    /\ UNCHANGED <<orchestratorVars, agentVars, toolVars, serviceVars, allButBio>>

\* the change is made in data, self._save(data), and the call returns
BacklogSave ==
    /\ bio.running = "pipeline"
    /\ bio.pipeline.pc = "loaded"
    /\ LET update == <<bio.pipeline.op, bio.pipeline.n + 1>>
       IN  bio' = [bio EXCEPT !.file = bio.pipeline.data \cup {update},
                              !.returned = @ \cup {update},
                              !.pipeline = [pc |-> "ready", op |-> "", data |-> {},
                                            n |-> @.n + 1]]
    /\ UNCHANGED <<orchestratorVars, agentVars, toolVars, serviceVars, allButBio>>

\* the pipeline coroutine reaches an await and gives the thread back
PipelineAwait ==
    /\ bio.running = "pipeline"
    /\ Suspendable(bio.pipeline.pc)
    /\ bio' = [bio EXCEPT !.running = "none"]
    /\ UNCHANGED <<orchestratorVars, agentVars, toolVars, serviceVars, allButBio>>

\* monitor_agents_intelligent runs to its next await: chat_completion,
\* think and log_agent_message; no BacklogManager call
MonitorAwait ==
    /\ bio.running = "monitor"
    /\ bio' = [bio EXCEPT !.running = "none",
                          !.monitor = CASE @ = "check" -> "reply"
                                        [] @ = "reply" -> "sleep"
                                        [] OTHER -> "check"]
    /\ UNCHANGED <<orchestratorVars, agentVars, toolVars, serviceVars, allButBio>>

InitLoop ==
    /\ OrchestratorIdle
    /\ AgentIdle
    /\ ToolIdle
    /\ ServiceIdle
    /\ SupportIdleBut({"bio"})
    /\ bio = NoLoop

NextLoop ==
    \/ LoopResume
    \/ BacklogLoad
    \/ BacklogSave
    \/ PipelineAwait
    \/ MonitorAwait

SpecLoop == InitLoop /\ [][NextLoop]_vars

\* a BacklogManager operation is never left between its load and its save,
\* and every update whose call returned is in the file
C33_NoOperationSuspended ==
    /\ bio.pipeline.pc = "loaded" => bio.running = "pipeline"
    /\ bio.returned \subseteq bio.file
    /\ {u[2] : u \in bio.returned} = 1..bio.pipeline.n

\* the file is written by the pipeline coroutine only, one update at a time
C33_OneWriter ==
    bio'.file # bio.file =>
        /\ bio.running = "pipeline"
        /\ bio'.file = bio.file \cup {<<bio.pipeline.op, bio.pipeline.n + 1>>}

\* C33: during an orchestrator run (pipeline coroutine and monitor task on
\* one event loop) the backlog has one writer at a time: every
\* BacklogManager operation completes load, mutate and save without a
\* suspension point in between, so no two read-modify-write sequences
\* interleave and no update is lost.
C33_SingleLogicalWriter ==
    []C33_NoOperationSuspended /\ [][C33_OneWriter]_vars

\* C33 witness: the monitor ran between two backlog updates of the pipeline
\* coroutine and both updates are in the file.
C33_Witness ==
    /\ bio.file = {<<"update_status", 1>>, <<"add_task", 2>>}
    /\ bio.monitor # "check"
    /\ bio.running = "monitor"

(***************************************************************************)
(* pm_auto_plan with _parse_planned_tasks and _fallback_tasks              *)
(* (start_agents.py:933-1102).  The PM's reply is the list of the items of *)
(* its JSON array; an item is a task for a valid agent or something the    *)
(* parser drops.  Between two calls a pipeline run changes the backlog.    *)
(***************************************************************************)
\* number of pm_auto_plan calls
MaxPlanCalls == 2

\* line 1058
WaveCap == 5

\* line 1102
FallbackCap == 4

PlanItem(a, d) == [assigned_to |-> a, depends_on |-> d]

\* the replies of the PM: no JSON array, an array with one task, an array
\* with an item for an agent outside valid_agents and two tasks, an array of
\* six tasks, an array of seven items of which six are tasks
PmPlans ==
    {<<>>,
     <<PlanItem("engineer", 0)>>,
     <<PlanItem("risk_manager", 0), PlanItem("data_scientist", 0), PlanItem("engineer", 1)>>,
     [i \in 1..6 |-> PlanItem("data_scientist", 0)],
     [i \in 1..7 |-> IF i = 2 THEN PlanItem("risk_manager", 0)
                              ELSE PlanItem("quant_analyst", 1)]}

FirstN(q, n) == IF Len(q) <= n THEN q ELSE SubSeq(q, 1, n)

\* a parser that keeps the whole list
ParsePlannedTasks_Uncapped(reply) ==
    SelectSeq(reply, LAMBDA t : t.assigned_to \in
                  {"data_scientist", "quant_analyst", "engineer", "devops"})

\* _parse_planned_tasks, lines 1040-1062
ParsePlannedTasks(reply) ==
    FirstN(SelectSeq(reply, LAMBDA t : t.assigned_to \in
                        {"data_scientist", "quant_analyst", "engineer", "devops"}),
           WaveCap)

\* _fallback_tasks, lines 1064-1102: the titles of the pool of five that
\* are not done yet, the first four of them
FallbackTasks(pool_left) ==
    FirstN([i \in 1..pool_left |-> PlanItem("data_scientist", 0)], FallbackCap)

\* lines 1004-1008
NewTasks(reply, pool_left) ==
    IF ParsePlannedTasks(reply) # <<>> THEN ParsePlannedTasks(reply)
    ELSE FallbackTasks(pool_left)

\* pm_auto_plan is called
PlanCall ==
    /\ plan.calls < MaxPlanCalls
    /\ \E reply \in PmPlans, pool_left \in {0, 5} :
         LET b == PmAutoPlan([tasks |-> tasks, next_id |-> next_id],
                             NewTasks(reply, pool_left))
         IN  /\ tasks' = b.tasks
             /\ next_id' = b.next_id
             /\ plan' = [calls |-> plan.calls + 1,
                         returned |-> Len(b.tasks) - Len(tasks),
                         pending_before |-> Pending(tasks) # <<>>,
                         len_before |-> Len(tasks)]
    /\ UNCHANGED <<ret, pl, hist, seed, agentVars, toolVars, serviceVars, allButPlan>>

\* the pipeline run of the next cycle: it gets every todo task of a started
\* agent done, or it ends in the first of them (the task stays in_progress),
\* or it starts nothing
PlanPipelineRun ==
    /\ plan.calls \in 1..(MaxPlanCalls - 1)
    /\ \E outcome \in {"all_done", "stopped"} :
         LET runnable == {i \in 1..Len(tasks) : /\ tasks[i].status = "todo"
                                                /\ tasks[i].assigned_to \in AgentSet}
         IN  /\ runnable # {}
             /\ tasks' = [i \in 1..Len(tasks) |->
                    IF i \notin runnable THEN tasks[i]
                    ELSE IF outcome = "all_done" THEN [tasks[i] EXCEPT !.status = "done"]
                    ELSE IF \A j \in runnable : i <= j
                         THEN [tasks[i] EXCEPT !.status = "in_progress"]
                         ELSE tasks[i]]
    /\ UNCHANGED <<next_id, ret, pl, hist, seed, plan, agentVars, toolVars, serviceVars,
                   allButPlan>>

InitPlan ==
    /\ \E n \in 0..1 : tasks \in CycleSeeds(n)
    /\ next_id = Len(tasks) + 1
    /\ ret = NoRet
    /\ pl = PipelineIdle
    /\ hist = NoHist
    /\ seed = tasks
    /\ AgentIdle
    /\ ToolIdle
    /\ ServiceIdle
    /\ SupportIdle

NextPlan ==
    \/ PlanCall
    \/ PlanPipelineRun

SpecPlan == InitPlan /\ [][NextPlan]_vars

\* what the last call returned and did
C35_CallResult ==
    plan.calls > 0 =>
        /\ plan.returned \in 0..5
        /\ plan.pending_before => plan.returned = 0

\* tasks are added only by a call made while no task is todo or
\* in_progress, at most 5 of them, and nothing else is changed by a call
C35_AddsOnlyWhenNothingPending ==
    /\ Len(tasks') > Len(tasks) =>
          /\ Pending(tasks) = <<>>
          /\ Len(tasks') - Len(tasks) <= 5
          /\ plan'.returned = Len(tasks') - Len(tasks)
    /\ (plan'.calls > plan.calls /\ Pending(tasks) # <<>>) =>
          (tasks' = tasks /\ plan'.returned = 0)
    /\ \A i \in 1..Len(tasks) :
          (plan'.calls > plan.calls) => tasks'[i] = tasks[i]

\* C35: pm_auto_plan adds no task and returns 0 whenever a task is todo or
\* in_progress; when it plans it adds at most 5 tasks per call.  So while
\* some task stays todo or in_progress no later cycle plans new tasks.
C35_NoPlanningWhilePending ==
    []C35_CallResult /\ [][C35_AddsOnlyWhenNothingPending]_vars

\* C35 witness: a first call planned five tasks of a reply naming six, the
\* pipeline left one of them in progress, and the later call added nothing.
C35_Witness ==
    /\ plan.calls = 2
    /\ plan.pending_before
    /\ plan.returned = 0
    /\ Len(tasks) = Len(seed) + 5
    /\ \E i \in 1..Len(tasks) : tasks[i].status = "in_progress" /\ i > Len(seed)

(***************************************************************************)
(* Claims about should_resume at the next start, checked under SpecResume. *)
(* The process before stopped in step prev.step of cycle prev.cycle (step  *)
(* 0: between two cycles, or before the first one when prev.cycle = 0).    *)
(***************************************************************************)
\* the position of set_phase("cooldown") in the cycle
C37_CooldownStep == CHOOSE k \in 1..Len(CyclePhases) : CyclePhases[k] = "cooldown"

\* the process before stopped after start_cycle and before
\* set_phase("cooldown")
C37_StoppedInCycle ==
    main_run.prev.set /\ main_run.prev.step \in 1..(C37_CooldownStep - 1)

\* it stopped after set_phase("cooldown"): in the rest of the cycle, in the
\* cooldown sleep, or at the top of the loop after it
C37_StoppedInCooldown ==
    /\ main_run.prev.set
    /\ main_run.prev.cycle > 0
    /\ main_run.prev.step \notin 1..(C37_CooldownStep - 1)

\* it stopped before its first cycle
C37_StoppedBeforeFirstCycle == main_run.prev.set /\ main_run.prev.cycle = 0

\* what the start reports is should_resume of the stored checkpoint
C37_ReportsStored ==
    main_run.recovery /\ main_run.pc = "startup" =>
        (main_run.resumed <=>
            /\ main_run.state.cycle > 0
            /\ main_run.state.phase \notin {"startup", "cooldown"})

\* C37 as stated: should_resume is true exactly when the stored checkpoint
\* has cycle > 0 and a phase other than startup and cooldown; so a process
\* that stopped inside a cycle before its cooldown is reported resumable at
\* the next start, and one that stopped in the cooldown or before its first
\* cycle is not.
C37_ResumableIffStoppedInCycle ==
    /\ C37_ReportsStored
    /\ main_run.recovery =>
          /\ C37_StoppedInCycle => main_run.resumed
          /\ C37_StoppedInCooldown => ~main_run.resumed
          /\ C37_StoppedBeforeFirstCycle => ~main_run.resumed

\* C37: should_resume is true exactly when the stored checkpoint has
\* cycle > 0 and a phase other than startup and cooldown; so a process that
\* stopped inside a cycle before its cooldown is reported resumable at the
\* next start, one that stopped in the cooldown is not, and one that stopped
\* before its first cycle left the checkpoint as it found it: the next start
\* reports what its own start reported.
C37_ResumableAsCheckpointLeft ==
    /\ C37_ReportsStored
    /\ main_run.recovery =>
          /\ C37_StoppedInCycle => main_run.resumed
          /\ C37_StoppedInCooldown => ~main_run.resumed
          /\ C37_StoppedBeforeFirstCycle =>
                (main_run.resumed <=> main_run.prev.resumed)

\* C37 witness: a process found the checkpoint of a run that crashed in the
\* voting phase of its first cycle, stopped before its own first cycle, and
\* the next start reports the checkpoint as resumable.
C37_Witness ==
    /\ main_run.starts = 2
    /\ main_run.recovery
    /\ C37_StoppedBeforeFirstCycle
    /\ main_run.state.phase = "voting"
    /\ main_run.state.cycle = 1
    /\ main_run.resumed

(***************************************************************************)
(* PaperTrader (src/src/utils/paper_trading.py): open_position and         *)
(* close_position with explicit prices.  Amounts are whole numbers of the  *)
(* smallest unit, so that sums and products are exact.                     *)
(***************************************************************************)
\* closed trades of one run
MaxClosedTrades == 2

\* the prices and quantities the calls are made with
TradePrices == {0, 1, 3}
TradeQtys == {0, 1, 2}

\* an open_position that accepts a second position in a symbol
HasPosition_Never(state, symbol) == FALSE

\* line 78, line 107
HasPosition(state, symbol) == state.positions[symbol].open

\* open_position(symbol, qty, price), lines 74-102
OpenPosition(state, symbol, qty, price) ==
    LET cost == price * qty
    IN  IF HasPosition(state, symbol)
        THEN [state EXCEPT !.returned = "error: already have position"]
        ELSE IF cost > state.capital
        THEN [state EXCEPT !.returned = "error: insufficient capital"]
        ELSE [state EXCEPT
                 !.capital = @ - cost,
                 !.positions[symbol] = [open |-> TRUE, qty |-> qty,
                                        entry_price |-> price, cost |-> cost],
                 !.opened = @ + 1,
                 !.returned = "ok"]

\* close_position(symbol, price), lines 104-145; the division of line 117
\* raises ZeroDivisionError for a position entered at price 0, before
\* anything is written
ClosePosition(state, symbol, price) ==
    LET pos == state.positions[symbol]
        pnl == (price - pos.entry_price) * pos.qty
    IN  IF ~HasPosition(state, symbol)
        THEN [state EXCEPT !.returned = "error: no position"]
        ELSE IF pos.entry_price = 0
        THEN [state EXCEPT !.returned = "ZeroDivisionError"]
        ELSE [state EXCEPT
                 !.capital = @ + price * pos.qty,
                 !.total_pnl = @ + pnl,
                 !.total_trades = @ + 1,
                 !.wins = IF pnl > 0 THEN @ + 1 ELSE @,
                 !.losses = IF pnl > 0 THEN @ ELSE @ + 1,
                 !.closed_trades = Append(@, [symbol |-> symbol, pnl |-> pnl]),
                 !.positions[symbol] = NoPosition,
                 !.returned = "ok"]

TraderOpen ==
    /\ \E symbol \in Symbols, qty \in TradeQtys, price \in TradePrices :
          pt' = OpenPosition(pt, symbol, qty, price)
    /\ UNCHANGED <<orchestratorVars, agentVars, toolVars, serviceVars, allButPt>>

TraderClose ==
    /\ Len(pt.closed_trades) < MaxClosedTrades
    /\ \E symbol \in Symbols, price \in TradePrices :
          pt' = ClosePosition(pt, symbol, price)
    /\ UNCHANGED <<orchestratorVars, agentVars, toolVars, serviceVars, allButPt>>

InitTrader ==
    /\ OrchestratorIdle
    /\ AgentIdle
    /\ ToolIdle
    /\ ServiceIdle
    /\ SupportIdle

NextTrader ==
    \/ TraderOpen
    \/ TraderClose

SpecTrader == InitTrader /\ [][NextTrader]_vars

\* the symbols with an open position, and the cost of the open positions
C38_Open == {y \in Symbols : pt.positions[y].open}

RECURSIVE C38_CostOf(_)
C38_CostOf(ys) ==
    IF ys = {} THEN 0
    ELSE LET y == CHOOSE z \in ys : TRUE
         IN  pt.positions[y].cost + C38_CostOf(ys \ {y})

\* the ledger, without what the last call returned
C38_Ledger(state) == [state EXCEPT !.returned = "none"]

\* the invariants of the ledger
C38_Balanced ==
    /\ pt.capital >= 0
    /\ Cardinality(C38_Open) = pt.opened - Len(pt.closed_trades)
    /\ pt.wins + pt.losses = pt.total_trades
    /\ pt.total_trades = Len(pt.closed_trades)
    /\ pt.capital + C38_CostOf(C38_Open) = StartingCapital + pt.total_pnl

\* a rejected call leaves the ledger as it was
C38_RejectedChangesNothing ==
    pt'.returned \in {"error: already have position",
                      "error: insufficient capital", "error: no position"}
        => C38_Ledger(pt') = C38_Ledger(pt)

\* C38: after any sequence of open_position and close_position calls with
\* explicit non-negative prices and quantities the capital is not negative,
\* there is at most one open position per symbol (every accepted open that
\* was not closed is still there), wins + losses = total_trades = the number
\* of closed trades, and capital plus the cost of the open positions is the
\* starting capital plus total_pnl; a rejected open or close leaves the
\* ledger unchanged.
C38_LedgerBalanced ==
    []C38_Balanced /\ [][C38_RejectedChangesNothing]_vars

\* C38 witness: a winning and a losing trade were closed, a position is
\* open, and an open that the capital does not cover was just rejected
C38_Witness ==
    /\ pt.wins = 1
    /\ pt.losses = 1
    /\ pt.total_pnl # 0
    /\ C38_Open # {}
    /\ C38_CostOf(C38_Open) > 0
    /\ pt.returned = "error: insufficient capital"

====
